---- MODULE Spec2Model ----
(***************************************************************************)
(* SPY-tracker: checkpoint capture / reconciliation engine and the AI      *)
(* prediction dedup + atomic creation service, as a state machine.         *)
(*                                                                         *)
(* The store (daily_predictions, ai_predictions, price_logs) is shared.    *)
(* Every handler runs in its own SQLAlchemy session (autoflush disabled):  *)
(* a handler is split at its database statements (SELECT at the start,     *)
(* flush, commit), which are the only points where two sessions interact.  *)
(* Under Spec handlers run one after the other; under the Race             *)
(* specifications two sessions interleave freely.                          *)
(*                                                                         *)
(* Prices are whole dollars; Python None / SQL NULL is None (-1) for       *)
(* numbers and "None" for strings and for nullable booleans.               *)
(* Times are minutes since 00:00 UTC of the trading date.                  *)
(***************************************************************************)
EXTENDS Integers, Sequences, FiniteSets, TLC

VARIABLES
    daily,      \* daily_predictions: the committed DailyPrediction rows
    ai,         \* ai_predictions: the committed AIPrediction rows
    priceLog,   \* price_logs: the committed PriceLog rows, in insertion order
    pc,         \* per session: the statement its handler is at
    loc,        \* per session: the handler's arguments, locals and pending rows
    out,        \* per session: the last handler run and how it ended
    ret,        \* per session: the prediction rows the last handler returned
    clock,      \* the store's clock: created_at of the next inserting flush
    nextId      \* the next ai_predictions primary key

vars == <<daily, ai, priceLog, pc, loc, out, ret, clock, nextId>>

-----------------------------------------------------------------------------
(* Bounds of the model *)

\* price_logs rows kept; a handler that would append beyond it is not started
MaxLog == 2
\* transactions that insert ai_predictions rows (created_at values handed out)
MaxClock == 2
\* price_logs rows kept when the admin refresh appends one per checkpoint
MaxAdminLog == 4
\* stored ai_predictions rows the canonical read is tried on
MaxRows == 3
\* distinct created_at values among those rows
MaxCreated == 2

\* calendar days (ordinals 1..MaxDay) the market data source knows about
MaxDay == 3

\* minute bars are drawn up to this many minutes before and after a target
MaxOffset == 2

\* price logs stored at a time in the retention runs
MaxKept == 3

-----------------------------------------------------------------------------
(* Basic values *)

None == 0 - 1
NoneStr == "None"
False == "False"
True == "True"

\* Python bool(...) of a comparison, as stored in a Boolean column
Bool(b) == IF b THEN True ELSE False

Abs(x) == IF x < 0 THEN 0 - x ELSE x

SetMin(S) == CHOOSE x \in S : \A y \in S : x <= y
SetMax(S) == CHOOSE x \in S : \A y \in S : x >= y

Sessions == {"s1", "s2"}

\* the trading date the model follows (2025-08-15, a weekday in CDT)
D1 == "2025-08-15"
\* another date with stored AI rows
D0 == "2025-08-14"
Dates == {D0, D1}

AllCheckpoints == {"preMarket", "open", "noon", "twoPM", "close"}

\* the iteration order of capture.CHECKPOINTS and of the canonical read
CheckpointOrder == <<"open", "noon", "twoPM", "close">>
AICheckpoints == {"open", "noon", "twoPM", "close"}

-----------------------------------------------------------------------------
(* Time: America/Chicago and US/Eastern wall clock to UTC minutes on D1    *)

ChicagoUtcOffset == 5 * 60
EasternUtcOffset == 4 * 60

HHMM(h, m) == h * 60 + m

\* capture.CHECKPOINTS: local America/Chicago targets
CHECKPOINTS(cp) ==
    CASE cp = "open"  -> HHMM(8, 30)
      [] cp = "noon"  -> HHMM(12, 0)
      [] cp = "twoPM" -> HHMM(14, 0)
      [] cp = "close" -> HHMM(15, 0)

\* pd.Timestamp(ts_local, tz="America/Chicago").tz_convert("UTC")
ChicagoToUtc(tsLocal) == tsLocal + ChicagoUtcOffset

\* hist.index[0].replace(hour=h, minute=m) on a US/Eastern index
EasternToUtc(tsLocal) == tsLocal + EasternUtcOffset

-----------------------------------------------------------------------------
(* The market data source: what it may answer for D1 on one call.          *)
(* ohlc: daily bar (None fields when there is none); bars: the 1-minute    *)
(* series, a function from UTC minute to <<Open, Close>>; quote: get_price *)

NoOhlc == [open |-> None, close |-> None]
NoBars == [t \in {} |-> <<None, None>>]

FeedNone  == [ohlc |-> NoOhlc, bars |-> NoBars, quote |-> None]
FeedQuote == [ohlc |-> NoOhlc, bars |-> NoBars, quote |-> 581]
FeedFull  ==
    [ohlc  |-> [open |-> 580, close |-> 583],
     bars  |-> (ChicagoToUtc(HHMM(8, 30))  :> <<580, 581>>) @@
               (EasternToUtc(HHMM(12, 0))  :> <<581, 582>>) @@
               (ChicagoToUtc(HHMM(12, 0))  :> <<582, 584>>) @@
               (ChicagoToUtc(HHMM(14, 0))  :> <<584, 585>>) @@
               (ChicagoToUtc(HHMM(14, 59)) :> <<585, 583>>),
     quote |-> 583]
\* the feed starts late: no bar at or before the 08:30 open target
FeedLate  ==
    [ohlc  |-> [open |-> 580, close |-> 583],
     bars  |-> (ChicagoToUtc(HHMM(12, 1))  :> <<582, 584>>) @@
               (ChicagoToUtc(HHMM(14, 59)) :> <<585, 583>>),
     quote |-> 583]
\* the series carries a bar before the 08:30 open
FeedEarly ==
    [ohlc  |-> [open |-> 579, close |-> 583],
     bars  |-> (ChicagoToUtc(HHMM(8, 29))  :> <<578, 578>>) @@
               (ChicagoToUtc(HHMM(8, 30))  :> <<579, 581>>) @@
               (ChicagoToUtc(HHMM(12, 0))  :> <<582, 586>>) @@
               (ChicagoToUtc(HHMM(14, 59)) :> <<585, 583>>),
     quote |-> 583]
\* the source has the daily bar but no minute series, and the reverse
FeedDaily ==
    [ohlc |-> [open |-> 580, close |-> 583], bars |-> NoBars, quote |-> 584]
FeedMinute ==
    [ohlc  |-> NoOhlc,
     bars  |-> (EasternToUtc(HHMM(12, 0)) :> <<581, 582>>) @@
               (EasternToUtc(HHMM(14, 0)) :> <<582, 585>>),
     quote |-> 584]
\* zero prints and a unit error
FeedBad   ==
    [ohlc  |-> [open |-> 0, close |-> 58300],
     bars  |-> (ChicagoToUtc(HHMM(12, 0))  :> <<0, 0>>),
     quote |-> 0]

FeedNames == {"none", "quote", "full", "late", "bad"}

Feed(f) ==
    CASE f = "none"  -> FeedNone
      [] f = "quote" -> FeedQuote
      [] f = "full"  -> FeedFull
      [] f = "late"  -> FeedLate
      [] f = "bad"   -> FeedBad
      [] f = "early" -> FeedEarly
      [] f = "daily" -> FeedDaily
      [] f = "minute" -> FeedMinute

-----------------------------------------------------------------------------
(* capture.py: bar selection                                               *)

\* as _get_bar_at_or_before, but with no bar up to the target it takes the
\* first bar of the series instead of returning None
GetBarOrFirst(bars, tsLocal) ==
    LET tsUtc   == ChicagoToUtc(tsLocal)
        nextMin == tsUtc + 1
        before  == {t \in DOMAIN bars : t <= tsUtc}
    IN  IF tsUtc \in DOMAIN bars THEN tsUtc
        ELSE IF nextMin \in DOMAIN bars THEN nextMin
        ELSE IF before # {} THEN SetMax(before)
        ELSE IF DOMAIN bars # {} THEN SetMin(DOMAIN bars)
        ELSE None

\* as _get_bar_at_or_before, but the latest bar up to the target is preferred
\* to the bar of the next minute
GetBarLatestFirst(bars, tsLocal) ==
    LET tsUtc   == ChicagoToUtc(tsLocal)
        nextMin == tsUtc + 1
        before  == {t \in DOMAIN bars : t <= tsUtc}
    IN  IF before # {} THEN SetMax(before)
        ELSE IF nextMin \in DOMAIN bars THEN nextMin
        ELSE None

\* _get_bar_at_or_before: the index (UTC minute) of the selected bar, or None
GetBarAtOrBefore(bars, tsLocal) ==
    LET tsUtc   == ChicagoToUtc(tsLocal)
        nextMin == tsUtc + 1
        before  == {t \in DOMAIN bars : t <= tsUtc}
    IN  IF tsUtc \in DOMAIN bars THEN tsUtc
        ELSE IF nextMin \in DOMAIN bars THEN nextMin
        ELSE IF before # {} THEN SetMax(before)
        ELSE None

\* as the field extraction of refresh_actuals_for_date, but Close for every
\* checkpoint
BarValueClose(bars, cp, t) == bars[t][2]

\* refresh_actuals_for_date, lines 92-96: Open of the bar for "open", else Close
BarValue(bars, cp, t) == IF cp = "open" THEN bars[t][1] ELSE bars[t][2]

-----------------------------------------------------------------------------
(* providers.py                                                            *)

Symbol == "SPY"

SpyMinPrice == 50
SpyMaxPrice == 2000
GenericMinPrice == 1
GenericMaxPrice == 10000

\* YFinanceProvider.validate_official_price
ValidateOfficialPrice(price, symbol) ==
    LET minPrice == IF symbol = "SPY" THEN SpyMinPrice ELSE GenericMinPrice
        maxPrice == IF symbol = "SPY" THEN SpyMaxPrice ELSE GenericMaxPrice
    IN  IF price = None THEN FALSE
        ELSE IF price <= 0 \/ price < minPrice \/ price > maxPrice THEN FALSE
        ELSE TRUE

\* hist.index[(abs(hist.index - target_time)).argmin()]: the first closest bar
ClosestBar(bars, target) ==
    CHOOSE t \in DOMAIN bars :
        \A u \in DOMAIN bars :
            \/ Abs(t - target) < Abs(u - target)
            \/ (Abs(t - target) = Abs(u - target) /\ t <= u)

\* lines 295-305: the target of an intraday checkpoint, hour and minute set on
\* the US/Eastern index
OfficialCheckpointTarget(cp) ==
    IF cp = "noon" THEN EasternToUtc(HHMM(12, 0)) ELSE EasternToUtc(HHMM(14, 0))

\* YFinanceProvider.get_official_checkpoint_price
GetOfficialCheckpointPrice(feed, cp) ==
    IF cp \in {"open", "close"} THEN
        IF feed.ohlc = NoOhlc THEN feed.quote ELSE feed.ohlc[cp]
    ELSE IF cp \in {"noon", "twoPM"} THEN
        IF DOMAIN feed.bars = {} THEN feed.quote
        ELSE feed.bars[ClosestBar(feed.bars, OfficialCheckpointTarget(cp))][2]
    ELSE feed.quote

-----------------------------------------------------------------------------
(* models.py: rows                                                         *)

\* DailyPrediction(date=d) as inserted: column defaults rangeHit, locked = False
NewDailyPrediction(d) ==
    [date |-> d, preMarket |-> None, open |-> None, noon |-> None,
     twoPM |-> None, close |-> None, predLow |-> None, predHigh |-> None,
     rangeHit |-> False, absErrorToClose |-> None,
     source |-> NoneStr, locked |-> False]

\* as _update_derived_fields, but the error is added to the stored one
UpdateDerivedFieldsAccumulate(pred) ==
    IF pred.close # None /\ pred.predHigh # None /\ pred.predLow # None
    THEN [pred EXCEPT
            !.absErrorToClose =
                (IF pred.absErrorToClose = None THEN 0 ELSE pred.absErrorToClose)
                    + Abs(2 * pred.close - (pred.predHigh + pred.predLow)),
            !.rangeHit = Bool(pred.predLow <= pred.close /\ pred.close <= pred.predHigh)]
    ELSE pred

\* absErrorToClose is kept in half dollars, so that (high + low) / 2.0 is exact
\* routers/predictions.py and routers/admin.py: _update_derived_fields
UpdateDerivedFields(pred) ==
    IF pred.close # None /\ pred.predHigh # None /\ pred.predLow # None
    THEN [pred EXCEPT
            !.absErrorToClose = Abs(2 * pred.close - (pred.predHigh + pred.predLow)),
            !.rangeHit = Bool(pred.predLow <= pred.close /\ pred.close <= pred.predHigh)]
    ELSE pred

\* PriceLog(date=d, checkpoint=cp, price=p)
NewPriceLog(d, cp, p) == [date |-> d, checkpoint |-> cp, price |-> p]

\* AIPrediction(...) as inserted; market_context stands for the columns that
\* tell one generated batch from another (confidence, reasoning, context)
NewAIPrediction(id, d, cp, price, ctx, created) ==
    [id |-> id, date |-> d, checkpoint |-> cp, predicted_price |-> price,
     market_context |-> ctx, created_at |-> created,
     actual_price |-> None, prediction_error |-> None]

-----------------------------------------------------------------------------
(* ai_predictor.py: _get_ai_predictions, from the reply's JSON text to the *)
(* PricePrediction list                                                    *)
(*                                                                         *)
(* A reply is the members of its JSON object in the order written: the     *)
(* key, whether the value is an object with predicted_price, confidence    *)
(* and reasoning, and the price.                                           *)

Member(key, wellformed, price) ==
    [key |-> key, wellformed |-> wellformed, price |-> price]

ReplyFour ==
    << Member("analysis", FALSE, None), Member("open", TRUE, 580),
       Member("noon", TRUE, 582), Member("twoPM", TRUE, 585),
       Member("close", TRUE, 583) >>
\* the model also predicts the pre-market print
ReplyExtra == << Member("preMarket", TRUE, 579) >> \o ReplyFour
\* the text repeats the open key
ReplyRepeated == ReplyFour \o << Member("open", TRUE, 581) >>
\* a member that is not a prediction object
ReplyNote == ReplyFour \o << Member("note", FALSE, None) >>
ReplyShort == << Member("open", TRUE, 580), Member("sentiment", FALSE, None) >>

ReplyNames == {"four", "extra", "repeated", "note", "short"}

Reply(n) ==
    CASE n = "four"     -> ReplyFour
      [] n = "extra"    -> ReplyExtra
      [] n = "repeated" -> ReplyRepeated
      [] n = "note"     -> ReplyNote
      [] n = "short"    -> ReplyShort

\* json.loads of an object: one entry per key, at the place of the key's
\* first member, with the value of its last member
JsonLoads(members) ==
    LET first(i) == ~\E j \in 1..(i - 1) : members[j].key = members[i].key
        last(k) == CHOOSE i \in 1..Len(members) :
                       /\ members[i].key = k
                       /\ ~\E j \in (i + 1)..Len(members) : members[j].key = k
        firsts == SelectSeq([i \in 1..Len(members) |-> i], first)
    IN  [n \in 1..Len(firsts) |-> members[last(members[firsts[n]].key)]]

\* lines 471-473: prediction_data.pop of the analysis fields
PopAnalysis(entries) ==
    SelectSeq(entries,
              LAMBDA e : e.key \notin {"analysis", "sentiment", "key_dynamics"})

\* lines 486-512: one PricePrediction per remaining key; a value that is not
\* such an object raises, and the except at line 519 answers the fallback
ReplyRaises(members) ==
    \E i \in 1..Len(PopAnalysis(JsonLoads(members))) :
        ~PopAnalysis(JsonLoads(members))[i].wellformed

ParsePredictions(members) ==
    LET entries == PopAnalysis(JsonLoads(members))
    IN  [i \in 1..Len(entries) |->
            [checkpoint |-> entries[i].key, predicted_price |-> entries[i].price]]

\* the baseline's four predictions, in dollars
FallbackBatch ==
    <<[checkpoint |-> "open",  predicted_price |-> 580],
      [checkpoint |-> "noon",  predicted_price |-> 581],
      [checkpoint |-> "twoPM", predicted_price |-> 581],
      [checkpoint |-> "close", predicted_price |-> 582]>>

\* generate_predictions for a reply: the DayPredictions handed to the callers
ReplyBatch(n) ==
    [market_context |-> "ctxA",
     predictions |-> IF ReplyRaises(Reply(n)) THEN FallbackBatch
                     ELSE ParsePredictions(Reply(n))]

-----------------------------------------------------------------------------
(* ai_predictor.py: what generate_predictions may return for D1            *)
(* (DayPredictions: market_context and one PricePrediction per key of the  *)
(* model's answer), or "fail" when it raises                               *)

BatchA == [market_context |-> "ctxA",
           predictions |-> <<[checkpoint |-> "open",  predicted_price |-> 580],
                             [checkpoint |-> "noon",  predicted_price |-> 582],
                             [checkpoint |-> "twoPM", predicted_price |-> 585],
                             [checkpoint |-> "close", predicted_price |-> 583]>>]
BatchB == [market_context |-> "ctxB",
           predictions |-> <<[checkpoint |-> "open",  predicted_price |-> 584],
                             [checkpoint |-> "noon",  predicted_price |-> 586],
                             [checkpoint |-> "twoPM", predicted_price |-> 590],
                             [checkpoint |-> "close", predicted_price |-> 588]>>]
BatchFail == [market_context |-> "none", predictions |-> <<>>]
\* generate_predictions fell back to a baseline without market data
BatchEmpty == [market_context |-> "ctxA", predictions |-> <<>>]
\* the model's answer lacks the twoPM and close keys
BatchPartial == [market_context |-> "ctxB",
                 predictions |-> <<[checkpoint |-> "open", predicted_price |-> 581],
                                   [checkpoint |-> "noon", predicted_price |-> 584]>>]

BatchNames == {"A", "B", "fail"}

Batch(b) ==
    CASE b = "A" -> BatchA
      [] b = "B" -> BatchB
      [] b = "fail" -> BatchFail
      [] b = "partial" -> BatchPartial
      [] b = "empty" -> BatchEmpty
      [] b \in ReplyNames -> ReplyBatch(b)

-----------------------------------------------------------------------------
(* ai_prediction_service.py: canonical read and band                       *)

\* .order_by(desc(AIPrediction.created_at)).all(): the orders the store may
\* return the rows in (rows of equal created_at come in any order)
NewestFirst(rows) ==
    LET n == Cardinality(rows)
    IN  {q \in [1..n -> rows] :
            /\ \A i, j \in 1..n : i # j => q[i] # q[j]
            /\ \A i, j \in 1..n : i < j => q[i].created_at >= q[j].created_at}

\* as the loop of lines 38-50, but a later row of a checkpoint replaces the
\* one seen before it
DedupKeepLast(allPredictions) ==
    LET seen(cp) == {i \in 1..Len(allPredictions) :
                        allPredictions[i].checkpoint = cp}
        present == SelectSeq(CheckpointOrder, LAMBDA cp : seen(cp) # {})
    IN  [k \in 1..Len(present) |-> allPredictions[SetMax(seen(present[k]))]]

\* lines 38-50: keep the first row seen per checkpoint, return in fixed order
DedupByCheckpoint(allPredictions) ==
    LET seen(cp) == {i \in 1..Len(allPredictions) :
                        allPredictions[i].checkpoint = cp}
        present == SelectSeq(CheckpointOrder, LAMBDA cp : seen(cp) # {})
    IN  [k \in 1..Len(present) |-> allPredictions[SetMin(seen(present[k]))]]

\* AIPredictionService.get_unique_predictions_for_date: its possible results
GetUniquePredictionsForDate(rows, d) ==
    {DedupByCheckpoint(q) : q \in NewestFirst({r \in rows : r.date = d})}

NoBand == [low |-> None, high |-> None]

\* compute_band_from_predictions (and ai_endpoints._compute_band_from_ai)
ComputeBandFromPredictions(predictions) ==
    IF Len(predictions) = 0 THEN NoBand
    ELSE LET prices == {predictions[i].predicted_price : i \in 1..Len(predictions)}
         IN  [low |-> SetMin(prices), high |-> SetMax(prices)]

-----------------------------------------------------------------------------
(* The store and the sessions                                              *)
(*                                                                         *)
(* Each handler is given twice from the same definitions: as one action    *)
(* (the handler run alone, start to return), and as the steps between its  *)
(* database statements, which two sessions interleave.                     *)

HasRow(d) == \E r \in daily : r.date = d
Row(d) == CHOOSE r \in daily : r.date = d

\* what a handler holds between its statements
IdleLoc ==
    [op |-> "none", date |-> D1, cp |-> "none", price |-> None, force |-> FALSE,
     feed |-> "none", obj |-> NewDailyPrediction(D1),
     loaded |-> NewDailyPrediction(D1), isNew |-> FALSE, inserted |-> FALSE,
     batch |-> "none", band |-> NoBand, pendingAI |-> {}, deleted |-> {},
     targets |-> {}]

\* unavailable: the checkpoints refresh_actuals_for_date found no bar for
NoOut == [op |-> "none", result |-> "none", unavailable |-> {}]

Outcome(op, result, unavailable) ==
    [op |-> op, result |-> result, unavailable |-> unavailable]

\* SELECT ... WHERE date = d, .first() / .one_or_none(); a new object otherwise
LoadOrNew(op, d, cp, price, force, f) ==
    [op |-> op, date |-> d, cp |-> cp, price |-> price, force |-> force,
     feed |-> f,
     obj |-> IF HasRow(d) THEN Row(d) ELSE NewDailyPrediction(d),
     loaded |-> IF HasRow(d) THEN Row(d) ELSE NewDailyPrediction(d),
     isNew |-> ~HasRow(d), inserted |-> FALSE,
     batch |-> "none", band |-> NoBand, pendingAI |-> {}, deleted |-> {},
     targets |-> {}]

\* daily_predictions.date is unique: an INSERT waits for an uncommitted INSERT
\* of the same date by another session to commit or roll back
InsertBlocked(s, d) ==
    \E t \in Sessions \ {s} : loc[t].inserted /\ loc[t].date = d

\* the UPDATE a commit issues writes the columns the session changed
MergedRow(cur, obj, loaded) ==
    [k \in DOMAIN cur |-> IF obj[k] # loaded[k] THEN obj[k] ELSE cur[k]]

\* daily_predictions after a session holding l commits its object as obj
CommittedDaily(l, obj) ==
    IF l.isNew THEN daily \cup {obj}
    ELSE IF HasRow(l.date)
         THEN (daily \ {Row(l.date)})
                 \cup {MergedRow(Row(l.date), obj, l.loaded)}
         ELSE daily

\* the handler run alone returns or raises
Return(s, op, result, unavailable) ==
    /\ out' = [out EXCEPT ![s] = Outcome(op, result, unavailable)]
    /\ UNCHANGED <<pc, loc>>

\* a step leaves the handler: the session is closed, nothing stays pending
Finish(s, result, unavailable) ==
    /\ pc' = [pc EXCEPT ![s] = "idle"]
    /\ loc' = [loc EXCEPT ![s] = IdleLoc]
    /\ out' = [out EXCEPT ![s] = Outcome(loc[s].op, result, unavailable)]

\* a step of the handler to its next statement
Goto(s, next, l) ==
    /\ pc' = [pc EXCEPT ![s] = next]
    /\ loc' = [loc EXCEPT ![s] = l]
    /\ out' = out

\* as db.flush() of a new DailyPrediction row, were daily_predictions.date not
\* declared unique: the INSERT goes through whatever the table holds
FlushNewRowUnchecked(s, next, error) ==
    /\ Goto(s, next, [loc[s] EXCEPT !.inserted = TRUE])
    /\ UNCHANGED <<daily, ai, priceLog, ret, clock, nextId>>

\* db.flush() of a new DailyPrediction row; error: what the handler raises
FlushNewRow(s, next, error) ==
    /\ ~InsertBlocked(s, loc[s].date)
    /\ IF HasRow(loc[s].date)
       THEN Finish(s, error, {})
       ELSE Goto(s, next, [loc[s] EXCEPT !.inserted = TRUE])
    /\ UNCHANGED <<daily, ai, priceLog, ret, clock, nextId>>

-----------------------------------------------------------------------------
(* scheduler.py: capture_price                                             *)

\* lines 36-42: no price, or validate_official_price rejects it
CapturePriceSkips(price) ==
    price = None \/ ~ValidateOfficialPrice(price, Symbol)

\* lines 51-70: set the checkpoint field, add the PriceLog, commit
CapturePriceWrites(l) ==
    /\ daily' = CommittedDaily(l, [l.obj EXCEPT ![l.cp] = l.price])
    /\ priceLog' = Append(priceLog, NewPriceLog(l.date, l.cp, l.price))

\* capture_price(db, cp, D1) run alone
CapturePrice(s, cp, f) ==
    /\ pc[s] = "idle"
    /\ Len(priceLog) < MaxLog
    /\ LET price == GetOfficialCheckpointPrice(Feed(f), cp)
       IN  IF CapturePriceSkips(price)
           THEN /\ Return(s, "capture_price", "skipped", {})
                /\ UNCHANGED <<daily, priceLog>>
           ELSE /\ CapturePriceWrites(
                       LoadOrNew("capture_price", D1, cp, price, FALSE, f))
                /\ Return(s, "capture_price", "ok", {})
    /\ UNCHANGED <<ai, ret, clock, nextId>>

CapturePriceStart(s, cp, f) ==
    /\ pc[s] = "idle"
    /\ Len(priceLog) < MaxLog
    /\ LET price == GetOfficialCheckpointPrice(Feed(f), cp)
       IN  IF CapturePriceSkips(price)
           THEN Return(s, "capture_price", "skipped", {})
           ELSE Goto(s, IF HasRow(D1) THEN "cp_commit" ELSE "cp_flush",
                     LoadOrNew("capture_price", D1, cp, price, FALSE, f))
    /\ UNCHANGED <<daily, ai, priceLog, ret, clock, nextId>>

\* line 49; _run_capture lets the IntegrityError through
CapturePriceFlush(s) ==
    /\ pc[s] = "cp_flush"
    /\ FlushNewRow(s, "cp_commit", "IntegrityError")

CapturePriceCommit(s) ==
    /\ pc[s] = "cp_commit"
    /\ CapturePriceWrites(loc[s])
    /\ Finish(s, "ok", {})
    /\ UNCHANGED <<ai, ret, clock, nextId>>

-----------------------------------------------------------------------------
(* capture.py: refresh_actuals_for_date                                    *)

\* as the loop of lines 86-103, but a populated field is kept even with force
RefreshedObjKeep(obj, bars, force) ==
    [k \in DOMAIN obj |->
        IF k \in AICheckpoints
        THEN LET t == GetBarAtOrBefore(bars, CHECKPOINTS(k))
             IN  IF t # None /\ obj[k] = None
                 THEN BarValue(bars, k, t)
                 ELSE obj[k]
        ELSE obj[k]]

\* lines 86-103: the checkpoint fields after the loop
RefreshedObj(obj, bars, force) ==
    [k \in DOMAIN obj |->
        IF k \in AICheckpoints
        THEN LET t == GetBarAtOrBefore(bars, CHECKPOINTS(k))
             IN  IF t # None /\ (obj[k] = None \/ force)
                 THEN BarValue(bars, k, t)
                 ELSE obj[k]
        ELSE obj[k]]

\* lines 105-116: the AIPrediction row of a checkpoint after the loop
RefreshedAI(r, d, bars, force) ==
    IF r.date = d /\ r.checkpoint \in AICheckpoints
    THEN LET t == GetBarAtOrBefore(bars, CHECKPOINTS(r.checkpoint))
         IN  IF t # None /\ (r.actual_price = None \/ force)
             THEN [r EXCEPT
                     !.actual_price = BarValue(bars, r.checkpoint, t),
                     !.prediction_error =
                         Abs(r.predicted_price - BarValue(bars, r.checkpoint, t))]
             ELSE r
    ELSE r

\* line 89: the checkpoints the loop skips because bar is None
NoBarCheckpoints(bars) ==
    {cp \in AICheckpoints : GetBarAtOrBefore(bars, CHECKPOINTS(cp)) = None}

\* .one_or_none() raises MultipleResultsFound on two rows of one checkpoint
RefreshFindsDuplicates(d, bars) ==
    \E cp \in AICheckpoints :
        /\ GetBarAtOrBefore(bars, CHECKPOINTS(cp)) # None
        /\ Cardinality({r \in ai : r.date = d /\ r.checkpoint = cp}) > 1

\* lines 86-118: the loop and the commit
RefreshActualsWrites(l) ==
    /\ daily' = CommittedDaily(l, RefreshedObj(l.obj, Feed(l.feed).bars, l.force))
    /\ ai' = {RefreshedAI(r, l.date, Feed(l.feed).bars, l.force) : r \in ai}

\* refresh_actuals_for_date(db, D1, force) run alone
RefreshActuals(s, force, f) ==
    /\ pc[s] = "idle"
    /\ IF DOMAIN Feed(f).bars = {}
       THEN /\ Return(s, "refresh_actuals", "ok", AICheckpoints)
            /\ UNCHANGED <<daily, ai>>
       ELSE IF RefreshFindsDuplicates(D1, Feed(f).bars)
       THEN /\ Return(s, "refresh_actuals", "MultipleResultsFound", {})
            /\ UNCHANGED <<daily, ai>>
       ELSE /\ RefreshActualsWrites(
                   LoadOrNew("refresh_actuals", D1, "none", None, force, f))
            /\ Return(s, "refresh_actuals", "ok", NoBarCheckpoints(Feed(f).bars))
    /\ UNCHANGED <<priceLog, ret, clock, nextId>>

RefreshActualsStart(s, force, f) ==
    /\ pc[s] = "idle"
    /\ IF DOMAIN Feed(f).bars = {}
       THEN Return(s, "refresh_actuals", "ok", AICheckpoints)
       ELSE Goto(s, IF HasRow(D1) THEN "ra_commit" ELSE "ra_flush",
                 LoadOrNew("refresh_actuals", D1, "none", None, force, f))
    /\ UNCHANGED <<daily, ai, priceLog, ret, clock, nextId>>

\* line 84
RefreshActualsFlush(s) ==
    /\ pc[s] = "ra_flush"
    /\ FlushNewRow(s, "ra_commit", "IntegrityError")

RefreshActualsCommit(s) ==
    /\ pc[s] = "ra_commit"
    /\ IF RefreshFindsDuplicates(loc[s].date, Feed(loc[s].feed).bars)
       THEN /\ Finish(s, "MultipleResultsFound", {})
            /\ UNCHANGED <<daily, ai>>
       ELSE /\ RefreshActualsWrites(loc[s])
            /\ Finish(s, "ok", NoBarCheckpoints(Feed(loc[s].feed).bars))
    /\ UNCHANGED <<priceLog, ret, clock, nextId>>

-----------------------------------------------------------------------------
(* routers/admin.py: refresh_official_prices_single_date                   *)

\* the order the handler visits the checkpoints: daily OHLC, then intraday
AdminRefreshOrder == <<"open", "close", "noon", "twoPM">>

\* lines 321 and 346: the price the handler resolves for a checkpoint
AdminRefreshPrice(feed, cp) ==
    IF cp \in {"open", "close"} THEN feed.ohlc[cp]
    ELSE GetOfficialCheckpointPrice(feed, cp)

\* lines 324-330 and 348-354: the checkpoint passes validation and the force check
AdminRefreshSets(obj, feed, force, cp) ==
    /\ AdminRefreshPrice(feed, cp) # None
    /\ ValidateOfficialPrice(AdminRefreshPrice(feed, cp), Symbol)
    /\ ~(obj[cp] # None /\ ~force)

\* lines 333 and 357, then line 368
AdminRefreshedObj(obj, feed, force) ==
    UpdateDerivedFields(
        [k \in DOMAIN obj |->
            IF k \in AICheckpoints /\ AdminRefreshSets(obj, feed, force, k)
            THEN AdminRefreshPrice(feed, k)
            ELSE obj[k]])

\* lines 341 and 365: the PriceLog rows added, in order
AdminRefreshLogs(obj, feed, force, d) ==
    LET written == SelectSeq(AdminRefreshOrder,
                             LAMBDA cp : AdminRefreshSets(obj, feed, force, cp))
    IN  [i \in 1..Len(written) |->
            NewPriceLog(d, written[i], AdminRefreshPrice(feed, written[i]))]

\* the checkpoints whose price is missing or rejected by the validator
AdminRefreshInvalid(feed) ==
    {cp \in AICheckpoints :
        ~ValidateOfficialPrice(AdminRefreshPrice(feed, cp), Symbol)}

\* lines 316-372: both loops, the derived fields and the commit
AdminRefreshWrites(l) ==
    /\ daily' = CommittedDaily(l, AdminRefreshedObj(l.obj, Feed(l.feed), l.force))
    /\ priceLog' = priceLog \o AdminRefreshLogs(l.obj, Feed(l.feed), l.force, l.date)

\* the PriceLog rows the handler would add fit the model's bound
AdminRefreshFits(force, f) ==
    Len(priceLog) + Len(AdminRefreshLogs(
        IF HasRow(D1) THEN Row(D1) ELSE NewDailyPrediction(D1),
        Feed(f), force, D1)) <= MaxAdminLog

\* refresh_official_prices_single_date(D1, force, db) run alone
AdminRefreshOfficial(s, force, f) ==
    /\ pc[s] = "idle"
    /\ AdminRefreshFits(force, f)
    /\ IF Feed(f).ohlc = NoOhlc
       THEN /\ Return(s, "refresh_official_prices", "HTTP404", {})
            /\ UNCHANGED <<daily, priceLog>>
       ELSE /\ AdminRefreshWrites(
                   LoadOrNew("refresh_official_prices", D1, "none", None, force, f))
            /\ Return(s, "refresh_official_prices", "ok", {})
    /\ UNCHANGED <<ai, ret, clock, nextId>>

-----------------------------------------------------------------------------
(* ai_predictions rows in flight                                           *)

\* UniqueConstraint('date', 'checkpoint')
SameKey(r, q) == r.date = q.date /\ r.checkpoint = q.checkpoint

\* the AIPrediction objects db.add-ed for a batch, as one flush inserts them
NewAIRowSeq(d, b, created, firstId) ==
    LET p == Batch(b).predictions
    IN  [i \in 1..Len(p) |->
            NewAIPrediction(firstId + i - 1, d, p[i].checkpoint,
                            p[i].predicted_price, Batch(b).market_context, created)]

NewAIRows(d, b, created, firstId) ==
    {NewAIRowSeq(d, b, created, firstId)[i] :
        i \in 1..Len(Batch(b).predictions)}

\* as AIInsertConflict, with the unique constraint not enforced
AIInsertUnchecked(rows, deleted) == FALSE

\* the INSERT meets a committed row of the same key the session has not deleted
AIInsertConflict(rows, deleted) ==
    \E r \in rows, q \in ai \ deleted : SameKey(r, q)

\* the INSERT waits for another session's uncommitted INSERT or DELETE of the key
AIInsertBlocked(s, rows) ==
    \E t \in Sessions \ {s} :
        \E r \in rows, q \in loc[t].pendingAI \cup (loc[t].deleted \cap ai) :
            SameKey(r, q)

\* the DELETE waits for another session's uncommitted DELETE of the same rows
AIDeleteBlocked(s, targets) ==
    \E t \in Sessions \ {s} : loc[t].deleted \cap targets \cap ai # {}

-----------------------------------------------------------------------------
(* ai_endpoints.py: create_ai_prediction_for_date                          *)

\* as the lock check of create_ai_prediction_for_date, but only a lock set by
\* the AI source counts
DayLockedByAI(d) == HasRow(d) /\ Row(d).locked = True /\ Row(d).source = "ai"

\* line 199: existing_day and existing_day.locked
DayLocked(d) == HasRow(d) /\ Row(d).locked = True

\* lines 245-247: band of the in-memory predictions
BandOfBatch(b) == ComputeBandFromPredictions(Batch(b).predictions)

\* the band written without the source and the lock
CreateAIWritesBandOnly(l) ==
    /\ daily' = CommittedDaily(l, [l.obj EXCEPT !.predLow = l.band.low,
                                                !.predHigh = l.band.high])
    /\ ai' = ai \cup l.pendingAI

\* lines 259-268: write the band, lock, commit (with the flushed AI rows)
CreateAIWrites(l) ==
    /\ daily' = CommittedDaily(l, [l.obj EXCEPT !.predLow = l.band.low,
                                                !.predHigh = l.band.high,
                                                !.source = "ai",
                                                !.locked = True])
    /\ ai' = ai \cup l.pendingAI

\* what a caller of create_ai_prediction_for_date reports: the endpoint the
\* result or the error, the scheduler job (absorb) nothing but its return
Reported(absorb, result) ==
    IF ~absorb THEN result
    ELSE CASE result = "ok"      -> "done"
           [] result = "HTTP409" -> "absorbed409"
           [] OTHER              -> "absorbed"

\* create_ai_prediction_for_date(D1, lookback, db) run alone, called by op;
\* b: what the predictor answers if asked
CreateAICall(s, b, op, absorb) ==
    /\ pc[s] = "idle"
    /\ LET l == LoadOrNew(op, D1, "none", None, FALSE, "none")
           rows == NewAIRows(D1, b, clock, nextId)
       IN  IF DayLocked(D1)
           THEN /\ Return(s, op, Reported(absorb, "HTTP409"), {})
                /\ UNCHANGED <<daily, ai, clock, nextId>>
           ELSE \E existing \in GetUniquePredictionsForDate(ai, D1) :
                IF existing # <<>>
                THEN /\ CreateAIWrites(
                            [l EXCEPT !.band = ComputeBandFromPredictions(existing)])
                     /\ Return(s, op, Reported(absorb, "ok"), {})
                     /\ UNCHANGED <<clock, nextId>>
                ELSE IF b = "fail"
                THEN /\ Return(s, op, Reported(absorb, "Exception"), {})
                     /\ UNCHANGED <<daily, ai, clock, nextId>>
                ELSE IF AIInsertConflict(rows, {}) \/ rows = {}
                THEN /\ Return(s, op, Reported(absorb, "HTTP500"), {})
                     /\ UNCHANGED <<daily, ai, clock, nextId>>
                ELSE /\ clock <= MaxClock
                     /\ \E unique \in GetUniquePredictionsForDate(ai \cup rows, D1) :
                            CreateAIWrites(
                                [l EXCEPT !.pendingAI = rows,
                                          !.band = IF unique = <<>>
                                                   THEN BandOfBatch(b)
                                                   ELSE ComputeBandFromPredictions(unique)])
                     /\ clock' = clock + 1
                     /\ nextId' = nextId + Cardinality(rows)
                     /\ Return(s, op, Reported(absorb, "ok"), {})
    /\ UNCHANGED <<priceLog, ret>>

\* the endpoint's call
CreateAIPredictionForDate(s, b) ==
    CreateAICall(s, b, "create_ai_prediction", FALSE)

\* lines 198-208: the two reads, for the endpoint or the 08:00 job (op)
CreateAIBegin(s, b, op) ==
    /\ pc[s] = "idle"
    /\ LET l == LoadOrNew(op, D1, "none", None, FALSE, "none")
           absorb == op = "run_ai_prediction"
       IN  IF DayLocked(D1)
           THEN Return(s, op, Reported(absorb, "HTTP409"), {})
           ELSE \E existing \in GetUniquePredictionsForDate(ai, D1) :
                IF existing # <<>>
                THEN Goto(s, "ca_commit",
                          [l EXCEPT !.band = ComputeBandFromPredictions(existing)])
                ELSE IF b = "fail"
                THEN Return(s, op, Reported(absorb, "Exception"), {})
                ELSE /\ clock <= MaxClock
                     /\ Goto(s, "ca_flush", [l EXCEPT !.batch = b])
    /\ UNCHANGED <<daily, ai, priceLog, ret, clock, nextId>>

CreateAIStart(s, b) == CreateAIBegin(s, b, "create_ai_prediction")

\* scheduler.py lines 159-175: the job's call, on the job's own session
RunAIPredictionStart(s, b) == CreateAIBegin(s, b, "run_ai_prediction")

\* lines 214-256: generate, add, flush, band; IntegrityError: roll back, adopt
CreateAIFlush(s) ==
    /\ pc[s] = "ca_flush"
    /\ LET l == loc[s]
           rows == NewAIRows(l.date, l.batch, clock, nextId)
       IN  /\ ~AIInsertBlocked(s, rows)
           /\ IF AIInsertConflict(rows, {})
              THEN /\ \E existing \in GetUniquePredictionsForDate(ai, l.date) :
                        IF existing # <<>>
                        THEN Goto(s, "ca_commit",
                                  [l EXCEPT !.band = ComputeBandFromPredictions(existing)])
                        ELSE Finish(s, Reported(l.op = "run_ai_prediction",
                                                "HTTP500"), {})
                   /\ UNCHANGED <<clock, nextId>>
              ELSE /\ \E unique \in GetUniquePredictionsForDate(ai \cup rows, l.date) :
                        Goto(s, "ca_commit",
                             [l EXCEPT !.pendingAI = rows,
                                       !.band = IF unique = <<>>
                                                THEN BandOfBatch(l.batch)
                                                ELSE ComputeBandFromPredictions(unique)])
                   /\ clock' = clock + 1
                   /\ nextId' = nextId + Cardinality(rows)
    /\ UNCHANGED <<daily, ai, priceLog, ret>>

\* lines 259-268: the commit inserts the DailyPrediction added at line 262
CreateAICommit(s) ==
    /\ pc[s] = "ca_commit"
    /\ loc[s].isNew => ~InsertBlocked(s, loc[s].date)
    /\ IF loc[s].isNew /\ HasRow(loc[s].date)
       THEN /\ Finish(s, Reported(loc[s].op = "run_ai_prediction",
                                "IntegrityError"), {})
            /\ UNCHANGED <<daily, ai>>
       ELSE /\ CreateAIWrites(loc[s])
            /\ Finish(s, Reported(loc[s].op = "run_ai_prediction", "ok"), {})
    /\ UNCHANGED <<priceLog, ret, clock, nextId>>

-----------------------------------------------------------------------------
(* routers/predictions.py: POST /prediction                                *)

\* DailyPredictionCreate bodies (model_dump gives every field, None if absent)
PayloadBand ==
    [preMarket |-> None, predLow |-> 580, predHigh |-> 585, source |-> NoneStr,
     locked |-> NoneStr, open |-> None, noon |-> None, twoPM |-> None,
     close |-> None, rangeHit |-> NoneStr, absErrorToClose |-> None]
PayloadWide ==
    [preMarket |-> 579, predLow |-> 570, predHigh |-> 582, source |-> "manual",
     locked |-> False, open |-> None, noon |-> None, twoPM |-> None,
     close |-> None, rangeHit |-> NoneStr, absErrorToClose |-> None]

PayloadNames == {"band", "wide"}

Payload(p) == IF p = "band" THEN PayloadBand ELSE PayloadWide

\* lines 68-70: setattr(pred, k, v) for every field of the body
ApplyPayload(obj, payload) ==
    [k \in DOMAIN obj |-> IF k \in DOMAIN payload THEN payload[k] ELSE obj[k]]

\* lines 68-73
CreateOrUpdatePredictionWrites(l, p) ==
    daily' = CommittedDaily(l, UpdateDerivedFields(ApplyPayload(l.obj, Payload(p))))

\* create_or_update_prediction(payload, db) run alone
CreateOrUpdatePrediction(s, p) ==
    /\ pc[s] = "idle"
    /\ CreateOrUpdatePredictionWrites(
           LoadOrNew("create_or_update_prediction", D1, "none", None, FALSE, "none"), p)
    /\ Return(s, "create_or_update_prediction", "ok", {})
    /\ UNCHANGED <<ai, priceLog, ret, clock, nextId>>

-----------------------------------------------------------------------------
(* ai_prediction_service.py: create_or_update_daily_prediction             *)

BandNarrow == [low |-> 581, high |-> 584]
BandShift  == [low |-> 590, high |-> 595]

BandNames == {"narrow", "shift"}

BandArg(n) == IF n = "narrow" THEN BandNarrow ELSE BandShift

\* line 165: the only case the function refuses
LockedForSource(d, source) ==
    HasRow(d) /\ Row(d).locked = True /\ Row(d).source # source

\* create_or_update_daily_prediction(db, D1, band, source, locked), then the
\* commit of the session it flushed into
CreateOrUpdateDailyPrediction(s, n, source, locked) ==
    /\ pc[s] = "idle"
    /\ IF LockedForSource(D1, source)
       THEN /\ Return(s, "create_or_update_daily_prediction",
                      "PredictionLockedException", {})
            /\ UNCHANGED daily
       ELSE /\ LET l == LoadOrNew("create_or_update_daily_prediction",
                                  D1, "none", None, FALSE, "none")
               IN  daily' = CommittedDaily(l,
                       [l.obj EXCEPT !.predLow = BandArg(n).low,
                                     !.predHigh = BandArg(n).high,
                                     !.source = source,
                                     !.locked = Bool(locked)])
            /\ Return(s, "create_or_update_daily_prediction", "ok", {})
    /\ UNCHANGED <<ai, priceLog, ret, clock, nextId>>

-----------------------------------------------------------------------------
(* ai_prediction_service.py: get_or_create_predictions_for_date, which     *)
(* calls create_predictions_atomic(replace_existing = force_regenerate)    *)
(* and commits                                                             *)

\* get_unique_predictions_for_date(db, d) called on its own
GetUniquePredictions(s, d) ==
    /\ pc[s] = "idle"
    /\ \E result \in GetUniquePredictionsForDate(ai, d) :
           ret' = [ret EXCEPT ![s] = result]
    /\ Return(s, "get_unique_predictions", "ok", {})
    /\ UNCHANGED <<daily, ai, priceLog, clock, nextId>>

\* as the start of get_or_create_predictions_for_date, but generation is
\* attempted whether or not canonical predictions exist
GetOrCreateStartRegenerate(s, force, b) ==
    /\ pc[s] = "idle"
    /\ IF b = "fail"
       THEN Return(s, "get_or_create_predictions", "Exception", {})
       ELSE /\ clock <= MaxClock
            /\ Goto(s, "gc_flush",
                    [IdleLoc EXCEPT !.op = "get_or_create_predictions",
                                    !.force = force, !.batch = b])
    /\ UNCHANGED <<daily, ai, priceLog, ret, clock, nextId>>

\* lines 201-212: the canonical read, then generate_predictions
GetOrCreateStart(s, force, b) ==
    /\ pc[s] = "idle"
    /\ LET l == [IdleLoc EXCEPT !.op = "get_or_create_predictions",
                                !.force = force, !.batch = b]
       IN  \E existing \in GetUniquePredictionsForDate(ai, D1) :
           IF existing # <<>> /\ ~force
           THEN /\ ret' = [ret EXCEPT ![s] = existing]
                /\ Return(s, "get_or_create_predictions", "ok", {})
           ELSE IF b = "fail"
           THEN /\ Return(s, "get_or_create_predictions", "Exception", {})
                /\ ret' = ret
           ELSE /\ clock <= MaxClock
                /\ Goto(s, IF force THEN "gc_delete" ELSE "gc_flush", l)
                /\ ret' = ret
    /\ UNCHANGED <<daily, ai, priceLog, clock, nextId>>

\* create_predictions_atomic lines 98-101: the DELETE finds its rows ...
GetOrCreateDeleteBegin(s) ==
    /\ pc[s] = "gc_delete"
    /\ Goto(s, "gc_deleting",
            [loc[s] EXCEPT !.targets = {r \in ai : r.date = loc[s].date}])
    /\ UNCHANGED <<daily, ai, priceLog, ret, clock, nextId>>

\* ... and deletes those still there once no other session holds them
GetOrCreateDelete(s) ==
    /\ pc[s] = "gc_deleting"
    /\ ~AIDeleteBlocked(s, loc[s].targets)
    /\ Goto(s, "gc_flush",
            [loc[s] EXCEPT !.deleted = loc[s].targets \cap ai, !.targets = {}])
    /\ UNCHANGED <<daily, ai, priceLog, ret, clock, nextId>>

\* create_predictions_atomic lines 104-135: add, flush; IntegrityError: roll
\* back, then return the canonical rows (not replacing) or raise (replacing)
GetOrCreateFlush(s) ==
    /\ pc[s] = "gc_flush"
    /\ LET l == loc[s]
           rows == NewAIRows(l.date, l.batch, clock, nextId)
       IN  /\ ~AIInsertBlocked(s, rows)
           /\ IF AIInsertConflict(rows, l.deleted)
              THEN /\ IF l.force
                      THEN /\ Finish(s, "IntegrityError", {})
                           /\ ret' = ret
                      ELSE /\ \E existing \in GetUniquePredictionsForDate(ai, l.date) :
                                ret' = [ret EXCEPT ![s] = existing]
                           /\ Finish(s, "adopted", {})
                   /\ UNCHANGED <<clock, nextId>>
              ELSE /\ Goto(s, "gc_commit", [l EXCEPT !.pendingAI = rows])
                   /\ clock' = clock + 1
                   /\ nextId' = nextId + Cardinality(rows)
                   /\ ret' = ret
    /\ UNCHANGED <<daily, ai, priceLog>>

\* get_or_create_predictions_for_date line 223: db.commit()
GetOrCreateCommit(s) ==
    /\ pc[s] = "gc_commit"
    /\ ai' = (ai \ loc[s].deleted) \cup loc[s].pendingAI
    /\ ret' = [ret EXCEPT ![s] =
                  [i \in 1..Len(Batch(loc[s].batch).predictions) |->
                      CHOOSE r \in loc[s].pendingAI :
                          r.checkpoint = Batch(loc[s].batch).predictions[i].checkpoint]]
    /\ Finish(s, "ok", {})
    /\ UNCHANGED <<daily, priceLog, clock, nextId>>

-----------------------------------------------------------------------------
(* ai_endpoints.py: get_ai_predictions_for_date                            *)

\* db.query(AIPrediction).filter(date == d).all(): the rows in any order
AllRowsOf(rows, d) ==
    LET of == {r \in rows : r.date = d}
        n == Cardinality(of)
    IN  {q \in [1..n -> of] : \A i, j \in 1..n : i # j => q[i] # q[j]}

\* lines 51-56, 82: the canonical read; with no rows, generate_predictions.
\* from: where the caller stands (idle when the function is the handler)
GetAIPredictionsRead(s, from, op, d, b) ==
    /\ pc[s] = from
    /\ LET l == [IdleLoc EXCEPT !.op = op, !.date = d, !.batch = b]
       IN  \E existing \in GetUniquePredictionsForDate(ai, d) :
           IF existing # <<>>
           THEN /\ Goto(s, "gp_finish", l)
                /\ ret' = [ret EXCEPT ![s] = existing]
           ELSE IF b = "fail"
           THEN /\ IF from = "idle"
                   THEN Return(s, op, "HTTP500", {})
                   ELSE Finish(s, "HTTP500", {})
                /\ ret' = ret
           ELSE /\ clock <= MaxClock
                /\ Goto(s, "gp_commit", l)
                /\ ret' = ret
    /\ UNCHANGED <<daily, ai, priceLog, clock, nextId>>

GetAIPredictionsStart(s, b) ==
    GetAIPredictionsRead(s, "idle", "get_ai_predictions", D1, b)

\* lines 62-82: add the rows, db.commit(), read the date's rows back; any
\* exception (the IntegrityError of the INSERT included) becomes HTTP 500
GetAIPredictionsCommit(s) ==
    /\ pc[s] = "gp_commit"
    /\ LET l == loc[s]
           rows == NewAIRows(l.date, l.batch, clock, nextId)
       IN  /\ ~AIInsertBlocked(s, rows)
           /\ IF AIInsertConflict(rows, {})
              THEN /\ Finish(s, "HTTP500", {})
                   /\ UNCHANGED <<ai, ret, clock, nextId>>
              ELSE /\ ai' = ai \cup rows
                   /\ clock' = clock + 1
                   /\ nextId' = nextId + Cardinality(rows)
                   /\ \E q \in AllRowsOf(ai \cup rows, l.date) :
                          ret' = [ret EXCEPT ![s] = q]
                   /\ Goto(s, "gp_finish", l)
    /\ UNCHANGED <<daily, priceLog>>

\* lines 116-138: the row as the response loop leaves it
WithActual(r, d) ==
    IF /\ HasRow(d) /\ r.checkpoint \in AICheckpoints
       /\ Row(d)[r.checkpoint] # None /\ r.actual_price = None
    THEN [r EXCEPT !.actual_price = Row(d)[r.checkpoint],
                   !.prediction_error = Abs(r.predicted_price - Row(d)[r.checkpoint])]
    ELSE r

\* lines 106-152: read the day's actuals, fill them into the rows, db.commit();
\* the UPDATE of a row another session deleted meanwhile raises StaleDataError
GetAIPredictionsFinish(s) ==
    /\ pc[s] = "gp_finish"
    /\ LET l == loc[s]
           held == {ret[s][i] : i \in 1..Len(ret[s])}
           changed == {r \in held : WithActual(r, l.date) # r}
       IN  IF \E r \in changed : ~\E q \in ai : q.id = r.id
           THEN /\ Finish(s, "StaleDataError", {})
                /\ UNCHANGED <<ai, ret>>
           ELSE /\ ai' = {IF \E r \in changed : r.id = q.id
                          THEN WithActual(q, l.date) ELSE q : q \in ai}
                /\ ret' = [ret EXCEPT ![s] =
                              [i \in 1..Len(@) |-> WithActual(@[i], l.date)]]
                /\ Finish(s, "ok", {})
    /\ UNCHANGED <<daily, priceLog, clock, nextId>>

-----------------------------------------------------------------------------
(* historical_simulation.py and routers/admin.py: simulation               *)
(*                                                                         *)
(* Calendar days are ordinals 1..MaxDay; market: the days the data source  *)
(* has a daily bar for. A context is what _gather_market_context hands to  *)
(* the model: the days of the history rows it read and the day the         *)
(* pre-market price proxy was quoted on (None when there is no price).     *)

\* date.fromordinal for the rows the simulation stores
CalendarDates ==
    <<"2025-08-11", "2025-08-12", "2025-08-13", "2025-08-14", "2025-08-15",
      "2025-08-16">>

Days == 1..MaxDay

NumDaysChoices == {1, 2}
LookbackChoices == {1, 2}

\* the elements of a set of days, earliest first (the index of a DataFrame)
Ascending(S) ==
    CHOOSE q \in [1..Cardinality(S) -> S] :
        \A i, j \in 1..Cardinality(S) : i < j => q[i] < q[j]

\* trading_days[-num_days:]
LastN(q, n) == IF Len(q) <= n THEN q ELSE SubSeq(q, Len(q) - n + 1, Len(q))

\* spy.history(start=..., end=..., interval="1d"): end is exclusive
History(market, start, end) == {t \in market : start <= t /\ t < end}

\* default_provider.get_price: the day of the latest trade, None without one
GetPriceDay(market) == IF market = {} THEN None ELSE SetMax(market)

SimContext(target, history, proxy) ==
    [target_date |-> target, history |-> history, proxy |-> proxy]

\* TimeAwareAIPredictor._gather_market_context, line 362: raises ValueError
TimeAwareNoHistory(market, target, lookback) ==
    History(market, target - lookback * 3, target) = {}

\* TimeAwareAIPredictor._gather_market_context: the previous close stands in
\* for the pre-market price
TimeAwareGatherMarketContext(market, target, lookback) ==
    LET hist == History(market, target - lookback * 3, target)
    IN  SimContext(target, hist, IF hist = {} THEN None ELSE SetMax(hist))

\* AIPredictor._gather_market_context
GatherMarketContext(market, target, lookback) ==
    SimContext(target, History(market, target - lookback * 3, target),
               GetPriceDay(market))

\* the daily bar of every trading day, and the actuals derived from it
DayBar == [Open |-> 580, High |-> 590, Low |-> 580, Close |-> 583]

SimActuals ==
    [open  |-> DayBar.Open,
     noon  |-> (DayBar.High + DayBar.Low) \div 2,
     twoPM |-> (DayBar.High * 3 + DayBar.Low * 7) \div 10,
     close |-> DayBar.Close]

SimulationTag(ctx) ==
    CASE ctx = "ctxA" -> "[SIMULATION] ctxA"
      [] ctx = "ctxB" -> "[SIMULATION] ctxB"
      [] OTHER -> ctx

\* what a simulation holds between two days of its loop
SimLoc(op, market, dates, lookback) ==
    [op |-> op, market |-> market, dates |-> dates, lookback |-> lookback,
     inserted |-> FALSE, date |-> NoneStr, pendingAI |-> {}]

\* HistoricalSimulator.run_simulation(end_date, num_days, lookback_days,
\* db=None), lines 64-79: fetch the history, pick the simulation dates
RunSimulationStart(s, market, end_date, num_days, lookback) ==
    /\ pc[s] = "idle"
    /\ LET hist == History(market, end_date - num_days * 3, end_date + 1)
           trading_days == Ascending({d \in hist : d <= end_date})
       IN  IF Len(trading_days) < num_days
           THEN /\ Return(s, "run_simulation", "ValueError", {})
                /\ ret' = ret
           ELSE /\ pc' = [pc EXCEPT ![s] = "sim_day"]
                /\ loc' = [loc EXCEPT ![s] =
                              SimLoc("run_simulation", market,
                                     LastN(trading_days, num_days), lookback)]
                /\ out' = out
                /\ ret' = [ret EXCEPT ![s] = <<>>]
    /\ UNCHANGED <<daily, ai, priceLog, clock, nextId>>

\* lines 83-86 and _simulate_single_day: one pass of the loop; b: what the
\* model call answers for the context
SimulateSingleDay(s, b) ==
    /\ pc[s] = "sim_day"
    /\ LET l == loc[s]
           target == Head(l.dates)
           context == TimeAwareGatherMarketContext(l.market, target, l.lookback)
       IN  IF TimeAwareNoHistory(l.market, target, l.lookback)
           THEN /\ Finish(s, "ValueError", {})
                /\ ret' = ret
           ELSE /\ ret' = [ret EXCEPT ![s] = Append(@, context)]
                /\ IF b = "fail" THEN Finish(s, "Exception", {})
                   ELSE IF Len(l.dates) = 1 THEN Finish(s, "ok", {})
                   ELSE Goto(s, "sim_day", [l EXCEPT !.dates = Tail(@)])
    /\ UNCHANGED <<daily, ai, priceLog, clock, nextId>>

\* admin_simulate_simple(num_days), lines 113-120; today: datetime.now().date()
AdminSimulateStart(s, market, today, num_days, lookback) ==
    /\ pc[s] = "idle"
    /\ market \subseteq 1..today
    /\ LET hist == History(market, today - num_days * 3, today + 1)
           dates == LastN(Ascending({d \in hist : d <= today}), num_days)
       IN  /\ IF dates = <<>>
              THEN Return(s, "admin_simulate_simple", "ok", {})
              ELSE /\ pc' = [pc EXCEPT ![s] = "adm_day"]
                   /\ loc' = [loc EXCEPT ![s] =
                                 SimLoc("admin_simulate_simple", market,
                                        dates, lookback)]
                   /\ out' = out
           /\ ret' = [ret EXCEPT ![s] = <<>>]
    /\ UNCHANGED <<daily, ai, priceLog, clock, nextId>>

\* lines 136-150: upsert of the day's DailyPrediction
AdminSimulatedDay(d, b) ==
    LET old  == IF HasRow(d) THEN Row(d) ELSE NewDailyPrediction(d)
        band == ComputeBandFromPredictions(Batch(b).predictions)
    IN  UpdateDerivedFields(
            [old EXCEPT !.predLow = band.low, !.predHigh = band.high,
                        !.source = "ai_simulation", !.locked = True,
                        !.open = SimActuals.open, !.noon = SimActuals.noon,
                        !.twoPM = SimActuals.twoPM, !.close = SimActuals.close])

\* lines 153-177: upsert of one AIPrediction per predicted checkpoint
AdminSimulatedAI(d, b) ==
    LET preds == Batch(b).predictions
        pred(cp) == CHOOSE i \in 1..Len(preds) : preds[i].checkpoint = cp
        hit(r) == r.date = d /\ \E i \in 1..Len(preds) : preds[i].checkpoint = r.checkpoint
        upd(r) ==
            [r EXCEPT !.actual_price = SimActuals[r.checkpoint],
                      !.prediction_error =
                          Abs(preds[pred(r.checkpoint)].predicted_price
                                  - SimActuals[r.checkpoint]),
                      !.market_context =
                          IF @ \in {"[SIMULATION] ctxA", "[SIMULATION] ctxB"}
                          THEN @ ELSE SimulationTag(Batch(b).market_context)]
        missing == {i \in 1..Len(preds) :
                       ~\E r \in ai : r.date = d /\ r.checkpoint = preds[i].checkpoint}
        new(i) ==
            [NewAIPrediction(nextId + i - 1, d, preds[i].checkpoint,
                             preds[i].predicted_price,
                             SimulationTag(Batch(b).market_context), clock)
                EXCEPT !.actual_price = SimActuals[preds[i].checkpoint],
                       !.prediction_error =
                           Abs(preds[i].predicted_price
                                   - SimActuals[preds[i].checkpoint])]
    IN  {IF hit(r) THEN upd(r) ELSE r : r \in ai} \cup {new(i) : i \in missing}

\* lines 122-179: one pass of the loop; an exception ends the handler with
\* HTTP 500, the days committed before stay
AdminSimulateDay(s, b) ==
    /\ pc[s] = "adm_day"
    /\ LET l == loc[s]
           d == Head(l.dates)
           context == GatherMarketContext(l.market, d, l.lookback)
       IN  /\ ret' = [ret EXCEPT ![s] = Append(@, context)]
           /\ IF b = "fail"
              THEN /\ Finish(s, "HTTP500", {})
                   /\ UNCHANGED <<daily, ai, clock, nextId>>
              ELSE /\ clock <= MaxClock
                   /\ daily' = {r \in daily : r.date # CalendarDates[d]}
                                   \cup {AdminSimulatedDay(CalendarDates[d], b)}
                   /\ ai' = AdminSimulatedAI(CalendarDates[d], b)
                   /\ clock' = clock + 1
                   /\ nextId' = nextId + Len(Batch(b).predictions)
                   /\ IF Len(l.dates) = 1 THEN Finish(s, "ok", {})
                      ELSE Goto(s, "adm_day", [l EXCEPT !.dates = Tail(@)])
    /\ UNCHANGED priceLog

-----------------------------------------------------------------------------
(* ai_predictor.py and baseline_model.py: generate_predictions.  Prices of
   this section are in cents. *)

\* what chat.completions.create and the parsing of its reply come to
CallOutcomes == {"json", "timeout", "malformed", "refusal"}

\* what ticker.history gives the baseline: rows, none, or an exception that
\* _get_market_data catches; "raises" is an exception escaping predict
BaselineData == {"rows", "empty", "error", "raises"}

ContextPreMarket == {None, 58000, 58200}
ContextPreviousClose == {None, 57900}

\* hist['Close'].iloc[-1] and the 14-day ATR of the baseline's own history
BaselineHistClose == 57800
BaselineAtr == 500

PricePrediction(checkpoint, predicted_price, source) ==
    [checkpoint |-> checkpoint, predicted_price |-> predicted_price,
     source |-> source]

\* the reply with the four checkpoint entries, as PricePrediction objects
LlmPredictions ==
    << PricePrediction("open", 58050, "llm"),
       PricePrediction("noon", 58225, "llm"),
       PricePrediction("twoPM", 58180, "llm"),
       PricePrediction("close", 58310, "llm") >>

\* {} when the history is empty or fetching it raised
GetMarketData(data, previous_close) ==
    IF data \in {"empty", "error"} THEN None
    ELSE IF previous_close = None THEN BaselineHistClose ELSE previous_close

\* BaselinePredictor.predict: [] without market data or previous close;
\* the close drift (70% of the day's mean drift) is rounded down to the cent
BaselinePredict(data, pre_market_price, previous_close) ==
    LET pc0 == GetMarketData(data, previous_close)
        d0 == IF pre_market_price # None
              THEN ((pre_market_price - pc0) * 8) \div 10 ELSE 0
        d1 == (d0 * 12) \div 10 + (2 * BaselineAtr) \div 10
        d2 == (d0 + d1) \div 2 + BaselineAtr \div 10
        d3 == (((d0 + d1 + d2) \div 3) * 7) \div 10 + (15 * BaselineAtr) \div 100
    IN  IF pc0 = None \/ pc0 = 0 THEN << >>
        ELSE << PricePrediction("open", pc0 + d0, "baseline"),
                PricePrediction("noon", pc0 + d1, "baseline"),
                PricePrediction("twoPM", pc0 + d2, "baseline"),
                PricePrediction("close", pc0 + d3, "baseline") >>

\* the except branch of _fallback_predictions: pre_market_price or
\* previous_close, scaled by fixed factors
EmergencyBase(pre_market_price, previous_close) ==
    IF pre_market_price # None /\ pre_market_price # 0 THEN pre_market_price
    ELSE previous_close

EmergencyPredictions(base_price) ==
    << PricePrediction("open", (base_price * 1001) \div 1000, "emergency"),
       PricePrediction("noon", (base_price * 1002) \div 1000, "emergency"),
       PricePrediction("twoPM", (base_price * 1001) \div 1000, "emergency"),
       PricePrediction("close", (base_price * 1003) \div 1000, "emergency") >>

\* _fallback_predictions raises ValueError exactly here
FallbackRaises(data, pre_market_price, previous_close) ==
    /\ data = "raises"
    /\ EmergencyBase(pre_market_price, previous_close) \in {None, 0}

FallbackPredictions(data, pre_market_price, previous_close) ==
    IF data # "raises"
    THEN BaselinePredict(data, pre_market_price, previous_close)
    ELSE EmergencyPredictions(EmergencyBase(pre_market_price, previous_close))

\* _get_ai_predictions: any exception of the call or of the parsing goes to
\* the fallback
GetAIPredictions(call, data, pre_market_price, previous_close) ==
    IF call = "json" THEN LlmPredictions
    ELSE FallbackPredictions(data, pre_market_price, previous_close)

\* generate_predictions: DayPredictions.predictions, or the error
GeneratePredictions(s, call, data, pre_market_price, previous_close) ==
    /\ pc[s] = "idle"
    /\ IF call # "json" /\ FallbackRaises(data, pre_market_price, previous_close)
       THEN /\ Return(s, "generate_predictions", "ValueError", {})
            /\ ret' = [ret EXCEPT ![s] = << >>]
       ELSE /\ Return(s, "generate_predictions",
                      IF call = "json" THEN "llm" ELSE call, {})
            /\ ret' = [ret EXCEPT ![s] =
                         GetAIPredictions(call, data, pre_market_price,
                                          previous_close)]
    /\ UNCHANGED <<daily, ai, priceLog, clock, nextId>>

-----------------------------------------------------------------------------
(* routers/admin.py: refresh_actuals_intraday_range and
   refresh_official_prices_date_range.  The dates of a range are the ordinals
   of Days; the market data of each date is chosen when the loop reaches it. *)

\* what the market data source does for one date of a range: a feed, or an
\* exception out of the download
RangeFeeds == {"none", "full", "late", "bad", "raises"}

RangeLoc(op, start, end, force) ==
    [op |-> op, start |-> start, end |-> end, current |-> start,
     force |-> force, inserted |-> FALSE, date |-> NoneStr, pendingAI |-> {}]

\* one entry of the handler's results list
RangeResult(d, status) == [date |-> d, status |-> status]

\* lines 95-96 and 410-414: the range check, then the loop
RefreshRangeStart(s, op, start, end, force) ==
    /\ pc[s] = "idle"
    /\ clock < MaxClock
    /\ clock' = clock + 1
    /\ IF start > end
       THEN /\ Return(s, op, "HTTP400", {})
            /\ ret' = ret
       ELSE /\ Goto(s, "rr_loop", RangeLoc(op, start, end, force))
            /\ ret' = [ret EXCEPT ![s] = << >>]
    /\ UNCHANGED <<daily, ai, priceLog, nextId>>

\* the loop moves to the next date, or the handler returns its results
RangeAdvance(s, result, final) ==
    /\ ret' = [ret EXCEPT ![s] = Append(ret[s], result)]
    /\ IF loc[s].current < loc[s].end
       THEN Goto(s, "rr_loop", [loc[s] EXCEPT !.current = loc[s].current + 1])
       ELSE Finish(s, final, {})

\* refresh_actuals_intraday_range, lines 98-101: refresh_actuals_for_date on
\* the current date; its exception leaves the loop for the handler at line 105
RefreshActualsRangeStep(s, f) ==
    /\ pc[s] = "rr_loop"
    /\ loc[s].op = "refresh_actuals_range"
    /\ LET d == CalendarDates[loc[s].current]
       IN  IF f = "raises"
           THEN /\ Finish(s, "HTTP500", {})
                /\ ret' = [ret EXCEPT ![s] = << >>]
                /\ UNCHANGED <<daily, ai>>
           ELSE IF DOMAIN Feed(f).bars = {}
           THEN /\ RangeAdvance(s, RangeResult(d, "nothing_filled"), "success")
                /\ UNCHANGED <<daily, ai>>
           ELSE IF RefreshFindsDuplicates(d, Feed(f).bars)
           THEN /\ Finish(s, "HTTP500", {})
                /\ ret' = [ret EXCEPT ![s] = << >>]
                /\ UNCHANGED <<daily, ai>>
           ELSE /\ RefreshActualsWrites(
                       LoadOrNew("refresh_actuals", d, "none", None,
                                 loc[s].force, f))
                /\ RangeAdvance(s, RangeResult(d, "filled"), "success")
    /\ UNCHANGED <<priceLog, clock, nextId>>

\* refresh_official_prices_date_range, lines 436-462:
\* refresh_official_prices_single_date on the current date; its HTTPException
\* (404 without a daily bar, 500 after a rollback) is recorded as failed
RefreshOfficialRangeStep(s, f) ==
    /\ pc[s] = "rr_loop"
    /\ loc[s].op = "refresh_official_prices_range"
    /\ LET d == CalendarDates[loc[s].current]
       IN  IF f = "raises" \/ Feed(f).ohlc = NoOhlc
           THEN /\ RangeAdvance(s, RangeResult(d, "failed"), "completed")
                /\ UNCHANGED <<daily, priceLog>>
           ELSE /\ AdminRefreshWrites(
                       LoadOrNew("refresh_official_prices", d, "none", None,
                                 loc[s].force, f))
                /\ RangeAdvance(s, RangeResult(d, "success"), "completed")
    /\ UNCHANGED <<ai, clock, nextId>>

-----------------------------------------------------------------------------
(* capture.py: _get_bar_at_or_before on minute series around a target *)

Offsets == (0 - MaxOffset)..MaxOffset

\* a minute series with a bar at each of the given offsets from the target
SeriesAround(tsLocal, offsets) ==
    [t \in {ChicagoToUtc(tsLocal) + o : o \in offsets} |-> <<580, 581>>]

BarSelection(tsLocal, index, selected) ==
    [target |-> ChicagoToUtc(tsLocal), index |-> index, selected |-> selected]

\* _get_bar_at_or_before(df, ts_local) for the target time of checkpoint cp
SelectBar(s, cp, offsets) ==
    /\ pc[s] = "idle"
    /\ LET bars == SeriesAround(CHECKPOINTS(cp), offsets)
           sel  == GetBarAtOrBefore(bars, CHECKPOINTS(cp))
       IN  /\ ret' = [ret EXCEPT ![s] =
                        << BarSelection(CHECKPOINTS(cp), DOMAIN bars, sel) >>]
           /\ Return(s, "get_bar_at_or_before",
                     IF sel = None THEN "None" ELSE "bar", {})
    /\ UNCHANGED <<daily, ai, priceLog, clock, nextId>>

-----------------------------------------------------------------------------
(* providers.py: validate_official_price over the values a caller can pass *)

\* Python values: None, an int or float (whole dollars), the float nan, the
\* float inf, and strings
PyNone == [kind |-> "none", v |-> 0]
PyNum(n) == [kind |-> "num", v |-> n]
PyNan == [kind |-> "nan", v |-> 0]
PyInf == [kind |-> "inf", v |-> 0]
PyStr(n) == [kind |-> "numstr", v |-> n]
PyText == [kind |-> "text", v |-> 0]

SampleNumbers == {0 - 10, 0, 1, 49, 50, 580, 2000, 2001, 10000, 10001}

PriceValues ==
    {PyNone, PyNan, PyInf, PyText, PyStr(580)} \cup {PyNum(n) : n \in SampleNumbers}

SymbolNames == {"SPY", "spy", "AAPL"}

\* str.upper()
Upper(symbol) == IF symbol = "spy" THEN "SPY" ELSE symbol

\* float(price) raises ValueError or TypeError
FloatRaises(x) == x.kind \in {"none", "text"}

\* float(price): a number string becomes its number
FloatOf(x) == IF x.kind = "numstr" THEN PyNum(x.v) ELSE x

\* a < b on floats, b finite: false when a is nan, false when a is +inf
FloatLess(a, b) == a.kind = "num" /\ a.v < b

\* a > b on floats, b finite: false when a is nan, true when a is +inf
FloatGreater(a, b) == a.kind = "inf" \/ (a.kind = "num" /\ a.v > b)

\* validate_official_price(price, symbol, checkpoint), lines 323-346
ValidateOfficialValue(price, symbol) ==
    LET p == FloatOf(price)
        minPrice == IF Upper(symbol) = "SPY" THEN SpyMinPrice ELSE GenericMinPrice
        maxPrice == IF Upper(symbol) = "SPY" THEN SpyMaxPrice ELSE GenericMaxPrice
    IN  IF price.kind = "none" THEN FALSE
        ELSE IF FloatRaises(price) THEN FALSE
        ELSE IF \/ FloatLess(p, 0) \/ (p.kind = "num" /\ p.v = 0)
                \/ FloatLess(p, minPrice) \/ FloatGreater(p, maxPrice)
             THEN FALSE
        ELSE TRUE

Validation(price, symbol, accepted) ==
    [price |-> price, symbol |-> symbol, accepted |-> accepted]

\* a call of validate_official_price
ValidatePrice(s, price, symbol) ==
    /\ pc[s] = "idle"
    /\ ret' = [ret EXCEPT ![s] =
                 << Validation(price, symbol, ValidateOfficialValue(price, symbol)) >>]
    /\ Return(s, "validate_official_price",
              IF ValidateOfficialValue(price, symbol) THEN "True" ELSE "False", {})
    /\ UNCHANGED <<daily, ai, priceLog, clock, nextId>>

-----------------------------------------------------------------------------
(* routers/predictions.py: recompute_day                                   *)

\* POST /recompute/{date} for D1, run alone
RecomputeDay(s) ==
    /\ pc[s] = "idle"
    /\ IF ~HasRow(D1)
       THEN /\ Return(s, "recompute_day", "DataNotFound", {})
            /\ UNCHANGED <<daily, ret>>
       ELSE /\ daily' = CommittedDaily(
                   LoadOrNew("recompute_day", D1, "none", None, FALSE, "none"),
                   UpdateDerivedFields(Row(D1)))
            /\ ret' = [ret EXCEPT ![s] = << UpdateDerivedFields(Row(D1)) >>]
            /\ Return(s, "recompute_day", "ok", {})
    /\ UNCHANGED <<ai, priceLog, clock, nextId>>

-----------------------------------------------------------------------------
(* timezone_utils.py, and the instant each capture path resolves a
   checkpoint to *)

\* timezone_utils.CHECKPOINTS: local America/New_York targets
EtCHECKPOINTS(cp) ==
    CASE cp = "open"  -> HHMM(9, 30)
      [] cp = "noon"  -> HHMM(12, 0)
      [] cp = "twoPM" -> HHMM(14, 0)
      [] cp = "close" -> HHMM(16, 0)

\* get_checkpoint_datetime: ET.localize(datetime.combine(date, time)), as UTC
GetCheckpointDatetime(cp) == EasternToUtc(EtCHECKPOINTS(cp))

\* refresh_actuals_for_date, lines 87-88: the target handed to
\* _get_bar_at_or_before
RefreshTarget(cp) == ChicagoToUtc(CHECKPOINTS(cp))

\* the paths that resolve a checkpoint to a minute; the scheduler path reads
\* open and close from the daily bar and has a minute target for noon and twoPM
ResolvePaths == {"scheduler", "refresh", "timezone_utils"}

PathResolves(path, cp) == path = "scheduler" => cp \in {"noon", "twoPM"}

ResolvedInstant(path, cp) ==
    CASE path = "scheduler"      -> OfficialCheckpointTarget(cp)
      [] path = "refresh"        -> RefreshTarget(cp)
      [] path = "timezone_utils" -> GetCheckpointDatetime(cp)

Resolution(path, cp, instant) ==
    [path |-> path, checkpoint |-> cp, instant |-> instant]

\* one path computes the target minute (UTC) of a checkpoint of D1
ResolveCheckpoint(s, path, cp) ==
    /\ pc[s] = "idle"
    /\ PathResolves(path, cp)
    /\ ret' = [ret EXCEPT ![s] =
                 << Resolution(path, cp, ResolvedInstant(path, cp)) >>]
    /\ Return(s, "resolve_checkpoint", "ok", {})
    /\ UNCHANGED <<daily, ai, priceLog, clock, nextId>>

-----------------------------------------------------------------------------
(* scheduler.py: _run_ai_prediction, and startup.py: warmup_ai_predictions;
   today is D1 *)

\* the 08:00 job: create_ai_prediction_for_date for today, any exception
\* passed over, the session closed
RunAIPrediction(s, b) ==
    CreateAICall(s, b, "run_ai_prediction", TRUE)

\* startup.py lines 50-53: skip if the day is already locked by AI
WarmupShouldGenerate ==
    ~HasRow(D1) \/ ~(Row(D1).locked = True /\ Row(D1).source = "ai")

\* warmup_ai_predictions: only on weekdays past 08:00 local time, and then
\* the routine of the 08:00 job
WarmupAIPredictions(s, b, weekday, past8am) ==
    IF weekday /\ past8am /\ WarmupShouldGenerate
    THEN CreateAICall(s, b, "warmup_ai_predictions", TRUE)
    ELSE /\ pc[s] = "idle"
         /\ Return(s, "warmup_ai_predictions", "skipped", {})
         /\ UNCHANGED <<daily, ai, priceLog, ret, clock, nextId>>

-----------------------------------------------------------------------------
(* routers/predictions.py: get_day, and routers/ai.py:                     *)
(* get_ai_predictions_endpoint                                             *)
(*                                                                         *)
(* Both handlers call refresh_actuals_for_date inside try/except when the  *)
(* date is date.today() (D1), pass over whatever it raises without a       *)
(* db.rollback(), and then read through the same Session. A Session whose  *)
(* flush failed refuses every statement until it is rolled back            *)
(* (PendingRollbackError): pc "rd_failed".                                 *)

ReadOps == {"get_day", "get_ai_predictions_endpoint"}

\* predictions.py lines 108-110, ai.py lines 36-38, and capture.py lines
\* 74-83 of the refresh they call
ReadDayStart(s, op, day, f) ==
    /\ pc[s] = "idle"
    /\ LET l == LoadOrNew(op, day, "none", None, FALSE, f)
       IN  IF day # D1 \/ DOMAIN Feed(f).bars = {}
           THEN Goto(s, "rd_read", [l EXCEPT !.feed = "none"])
           ELSE Goto(s, IF HasRow(D1) THEN "rd_commit" ELSE "rd_flush", l)
    /\ UNCHANGED <<daily, ai, priceLog, ret, clock, nextId>>

\* capture.py line 84 under the handler's except: the IntegrityError of the
\* INSERT is passed over and the Session is left with its failed flush
ReadDayFlush(s) ==
    /\ pc[s] = "rd_flush"
    /\ ~InsertBlocked(s, loc[s].date)
    /\ IF HasRow(loc[s].date)
       THEN Goto(s, "rd_failed", loc[s])
       ELSE Goto(s, "rd_commit", [loc[s] EXCEPT !.inserted = TRUE])
    /\ UNCHANGED <<daily, ai, priceLog, ret, clock, nextId>>

\* capture.py lines 86-118 under the handler's except: MultipleResultsFound
\* is raised by the query's result, the Session stays usable
ReadDayRefresh(s) ==
    /\ pc[s] = "rd_commit"
    /\ IF RefreshFindsDuplicates(loc[s].date, Feed(loc[s].feed).bars)
       THEN UNCHANGED <<daily, ai>>
       ELSE RefreshActualsWrites(loc[s])
    /\ Goto(s, "rd_read", [loc[s] EXCEPT !.inserted = FALSE, !.isNew = FALSE])
    /\ UNCHANGED <<priceLog, ret, clock, nextId>>

\* predictions.py lines 113-120: .first(), DataNotFoundException without a row
GetDayRead(s) ==
    /\ pc[s] \in {"rd_read", "rd_failed"}
    /\ loc[s].op = "get_day"
    /\ IF pc[s] = "rd_failed"
       THEN /\ Finish(s, "PendingRollbackError", {})
            /\ ret' = ret
       ELSE IF HasRow(loc[s].date)
       THEN /\ Finish(s, "ok", {})
            /\ \E r \in {q \in daily : q.date = loc[s].date} :
                   ret' = [ret EXCEPT ![s] = <<r>>]
       ELSE /\ Finish(s, "DataNotFound", {})
            /\ ret' = ret
    /\ UNCHANGED <<daily, ai, priceLog, clock, nextId>>

\* ai.py lines 42-52: get_ai_predictions_for_date through the same Session;
\* an exception other than DataNotFoundException becomes HTTP 500
GetAIPredictionsEndpointRead(s, b) ==
    /\ loc[s].op = "get_ai_predictions_endpoint"
    /\ IF pc[s] = "rd_failed"
       THEN /\ Finish(s, "HTTP500", {})
            /\ UNCHANGED <<daily, ai, priceLog, ret, clock, nextId>>
       ELSE GetAIPredictionsRead(s, "rd_read", loc[s].op, loc[s].date, b)

-----------------------------------------------------------------------------
(* routers/predictions.py: log_checkpoint; scheduler.py: _run_daily_cleanup;*)
(* routers/admin.py: cleanup_future_data                                   *)
(*                                                                         *)
(* Dates are compared through their day of the year 2025.                  *)

DayOld    == "2025-07-15"
DayCutoff == "2025-07-16"
DayFuture == "2025-08-16"

RetentionDates == {DayOld, DayCutoff, D0, D1, DayFuture}

DateOrdinal(d) ==
    CASE d = DayOld    -> 196
      [] d = DayCutoff -> 197
      [] d = D0        -> 226
      [] d = D1        -> 227
      [] d = DayFuture -> 228

\* scheduler.py line 185: timedelta(days=30)
KeepDays == 30

\* lines 124-148: the PriceLog, the day's row (created if absent) with the
\* checkpoint field set, _update_derived_fields, db.commit()
LogCheckpoint(s, cp, d, price) ==
    /\ pc[s] = "idle"
    /\ IF cp \notin {"preMarket", "open", "noon", "twoPM", "close"}
       THEN /\ Return(s, "log_checkpoint", "HTTP400", {})
            /\ UNCHANGED <<daily, priceLog>>
       ELSE LET l == LoadOrNew("log_checkpoint", d, cp, price, FALSE, "none")
            IN  /\ priceLog' = Append(priceLog, NewPriceLog(d, cp, price))
                /\ daily' = CommittedDaily(l,
                               UpdateDerivedFields([l.obj EXCEPT ![cp] = price]))
                /\ Return(s, "log_checkpoint", "ok", {})
    /\ UNCHANGED <<ai, ret, clock, nextId>>

\* the statements of _run_daily_cleanup, and the one that raises
CleanupFailures == {"none", "daily", "ai", "logs", "commit"}

\* lines 186-199: the three bulk DELETEs as the transaction sees the tables
\* when it stops at the statement that raises
CleanupPending(cutoff, fail) ==
    [daily    |-> IF fail = "daily" THEN daily
                  ELSE {r \in daily : ~(DateOrdinal(r.date) < cutoff)},
     ai       |-> IF fail \in {"daily", "ai"} THEN ai
                  ELSE {r \in ai : ~(DateOrdinal(r.date) < cutoff)},
     priceLog |-> IF fail \in {"daily", "ai", "logs"} THEN priceLog
                  ELSE SelectSeq(priceLog,
                                 LAMBDA e : ~(DateOrdinal(e.date) < cutoff))]

\* as db.rollback(), were the DELETEs already made to stay
AfterRollbackKeep(committed, pending) == pending

\* line 209: db.rollback()
AfterRollback(committed, pending) == committed

\* _run_daily_cleanup run on the day today
RunDailyCleanup(s, today, fail) ==
    /\ pc[s] = "idle"
    /\ LET cutoff == DateOrdinal(today) - KeepDays
           committed == [daily |-> daily, ai |-> ai, priceLog |-> priceLog]
           pending == CleanupPending(cutoff, fail)
           after == IF fail = "none" THEN pending
                    ELSE AfterRollback(committed, pending)
       IN  /\ daily' = after.daily
           /\ ai' = after.ai
           /\ priceLog' = after.priceLog
           /\ ret' = [ret EXCEPT ![s] = <<[today |-> today]>>]
           /\ Return(s, "run_daily_cleanup",
                     IF fail = "none" THEN "ok" ELSE "failed", {})
    /\ UNCHANGED <<clock, nextId>>

\* admin.py lines 252-276: the predictions dated after today
CleanupFutureData(s, today) ==
    /\ pc[s] = "idle"
    /\ daily' = {r \in daily : ~(DateOrdinal(r.date) > DateOrdinal(today))}
    /\ ai' = {r \in ai : ~(DateOrdinal(r.date) > DateOrdinal(today))}
    /\ ret' = [ret EXCEPT ![s] = <<[today |-> today]>>]
    /\ Return(s, "cleanup_future_data", "success", {})
    /\ UNCHANGED <<priceLog, clock, nextId>>

-----------------------------------------------------------------------------
(* providers.py: get_official_checkpoint_price with the lookup's outcome   *)
(*                                                                         *)
(* lookup: whether the call of ticker.history returns or raises. get_price *)
(* catches every exception of its own and answers feed.quote (None when    *)
(* neither the source nor the cache has a price).                          *)

LookupOutcomes == {"returns", "raises"}

\* as get_official_checkpoint_price, were the exception handler to answer
\* None in place of the current quote
OfficialCheckpointPriceNoFallback(lookup, feed, cp) ==
    IF lookup = "raises" /\ cp \in AICheckpoints THEN None
    ELSE GetOfficialCheckpointPrice(feed, cp)

\* get_daily_ohlc, lines 229-259: None without a daily bar or on an exception
GetDailyOhlc(lookup, feed) ==
    IF lookup = "raises" THEN NoOhlc ELSE feed.ohlc

\* lines 266-316: the try, and the except that answers get_price
OfficialCheckpointPrice(lookup, feed, cp) ==
    IF cp \in {"open", "close"} THEN
        IF GetDailyOhlc(lookup, feed) = NoOhlc THEN feed.quote
        ELSE GetDailyOhlc(lookup, feed)[cp]
    ELSE IF cp \in {"noon", "twoPM"} THEN
        IF lookup = "raises" THEN feed.quote
        ELSE GetOfficialCheckpointPrice(feed, cp)
    ELSE feed.quote

\* what one call was given and answered
PriceLookup(lookup, f, cp) ==
    [lookup |-> lookup, feed |-> f, checkpoint |-> cp,
     price |-> OfficialCheckpointPrice(lookup, Feed(f), cp)]

LookupOfficialPrice(s, lookup, f, cp) ==
    /\ pc[s] = "idle"
    /\ ret' = [ret EXCEPT ![s] = <<PriceLookup(lookup, f, cp)>>]
    /\ Return(s, "get_official_checkpoint_price", "ok", {})
    /\ UNCHANGED <<daily, ai, priceLog, clock, nextId>>

-----------------------------------------------------------------------------
(* historical_simulation.py: _store_simulation_results (run_simulation     *)
(* with a database session, as POST /simulation/run passes by default)     *)

\* lines 175-198: the DailyPrediction built when the date has none
SimulationDaily(d, b) ==
    LET band == ComputeBandFromPredictions(Batch(b).predictions)
    IN  UpdateDerivedFields(
            [NewDailyPrediction(d) EXCEPT
                !.predLow = band.low, !.predHigh = band.high,
                !.source = "ai_simulation", !.locked = True,
                !.open = SimActuals.open, !.noon = SimActuals.noon,
                !.twoPM = SimActuals.twoPM, !.close = SimActuals.close])

\* actuals.get(checkpoint)
SimActualOf(cp) == IF cp \in DOMAIN SimActuals THEN SimActuals[cp] ELSE None

\* as the update branch of _store_simulation_results, were it to take the
\* predicted value of the new answer as well
SimulationAIOverwrite(d, b) ==
    LET preds == Batch(b).predictions
        pred(cp) == CHOOSE i \in 1..Len(preds) : preds[i].checkpoint = cp
        hit(r) == r.date = d /\ \E i \in 1..Len(preds) : preds[i].checkpoint = r.checkpoint
    IN  {IF hit(r)
         THEN [r EXCEPT !.predicted_price = preds[pred(r.checkpoint)].predicted_price]
         ELSE r : r \in ai}

\* lines 201-230: per predicted checkpoint, the stored row updated (actuals
\* and the error of the new prediction; the predicted values kept) or a row
\* inserted
SimulationAI(d, b) ==
    LET preds == Batch(b).predictions
        pred(cp) == CHOOSE i \in 1..Len(preds) : preds[i].checkpoint = cp
        hit(r) == r.date = d /\ \E i \in 1..Len(preds) : preds[i].checkpoint = r.checkpoint
        upd(r) ==
            [r EXCEPT !.actual_price =
                          IF SimActualOf(r.checkpoint) # None
                          THEN SimActualOf(r.checkpoint) ELSE @,
                      !.prediction_error =
                          IF SimActualOf(r.checkpoint) # None
                          THEN Abs(preds[pred(r.checkpoint)].predicted_price
                                       - SimActualOf(r.checkpoint))
                          ELSE @,
                      !.market_context =
                          IF @ \in {"[SIMULATION] ctxA", "[SIMULATION] ctxB"}
                          THEN @ ELSE SimulationTag(Batch(b).market_context)]
        missing == {i \in 1..Len(preds) :
                       ~\E r \in ai : r.date = d /\ r.checkpoint = preds[i].checkpoint}
        new(i) ==
            [NewAIPrediction(nextId + i - 1, d, preds[i].checkpoint,
                             preds[i].predicted_price,
                             SimulationTag(Batch(b).market_context), clock)
                EXCEPT !.actual_price = SimActualOf(preds[i].checkpoint),
                       !.prediction_error =
                           IF SimActualOf(preds[i].checkpoint) # None
                           THEN Abs(preds[i].predicted_price
                                        - SimActualOf(preds[i].checkpoint))
                           ELSE None]
    IN  {IF hit(r) THEN upd(r) ELSE r : r \in ai} \cup {new(i) : i \in missing}

\* run_simulation lines 83-86 with db: _simulate_single_day and the store of
\* its results; min() of no price raises when the date has no row
SimulateAndStoreDay(s, b) ==
    /\ pc[s] = "sim_day"
    /\ LET l == loc[s]
           target == Head(l.dates)
           d == CalendarDates[target]
           context == TimeAwareGatherMarketContext(l.market, target, l.lookback)
       IN  IF TimeAwareNoHistory(l.market, target, l.lookback)
           THEN /\ Finish(s, "ValueError", {})
                /\ UNCHANGED <<daily, ai, ret, clock, nextId>>
           ELSE /\ ret' = [ret EXCEPT ![s] = Append(@, context)]
                /\ IF b = "fail"
                   THEN /\ Finish(s, "Exception", {})
                        /\ UNCHANGED <<daily, ai, clock, nextId>>
                   ELSE IF Batch(b).predictions = <<>> /\ ~HasRow(d)
                   THEN /\ Finish(s, "ValueError", {})
                        /\ UNCHANGED <<daily, ai, clock, nextId>>
                   ELSE /\ clock <= MaxClock
                        /\ daily' = IF HasRow(d) THEN daily
                                    ELSE daily \cup {SimulationDaily(d, b)}
                        /\ ai' = SimulationAI(d, b)
                        /\ clock' = clock + 1
                        /\ nextId' = nextId + Len(Batch(b).predictions)
                        /\ IF Len(l.dates) = 1 THEN Finish(s, "ok", {})
                           ELSE Goto(s, "sim_day", [l EXCEPT !.dates = Tail(@)])
    /\ UNCHANGED priceLog

-----------------------------------------------------------------------------
(* ai_predictor.py: _get_ai_predictions as a step                          *)

\* _get_ai_predictions run on a reply
ParseReply(s, n) ==
    /\ pc[s] = "idle"
    /\ ret' = [ret EXCEPT ![s] = ReplyBatch(n).predictions]
    /\ Return(s, "_get_ai_predictions",
              IF ReplyRaises(Reply(n)) THEN "fallback" ELSE "llm", {})
    /\ UNCHANGED <<daily, ai, priceLog, clock, nextId>>

-----------------------------------------------------------------------------
(* ai_prediction_service.py: get_or_create_predictions_for_date when a     *)
(* statement of the database raises                                        *)

\* as db.rollback(), were the DELETE of the old rows to stay
RolledBackDeleted(s) == ai \ loc[s].deleted

\* lines 225-231: db.rollback(); ai_predictions is as committed
RolledBack(s) == ai

\* the DELETE (line 99), a flush or the commit (line 223) raises: the except
\* rolls back and, under force_regenerate, re-raises
GetOrCreateRaise(s) ==
    /\ pc[s] \in {"gc_deleting", "gc_flush", "gc_commit"}
    /\ loc[s].op = "get_or_create_predictions"
    /\ loc[s].force
    /\ ai' = RolledBack(s)
    /\ Finish(s, "Exception", {})
    /\ UNCHANGED <<daily, priceLog, ret, clock, nextId>>

-----------------------------------------------------------------------------
(* cleanup_duplicates.py: cleanup_duplicate_predictions                    *)

\* lines 20-39: in the order (date, checkpoint, id descending) the first row
\* of a key is kept, every later one deleted
KeptByCleanup(rows) ==
    {r \in rows : \A q \in rows : SameKey(q, r) => q.id <= r.id}

\* cleanup_duplicate_predictions() on its own session; commits only if a row
\* was deleted
CleanupDuplicatePredictions(s) ==
    /\ pc[s] = "idle"
    /\ ai' = KeptByCleanup(ai)
    /\ Return(s, "cleanup_duplicate_predictions",
              IF KeptByCleanup(ai) = ai THEN "none_found" ELSE "removed", {})
    /\ UNCHANGED <<daily, priceLog, ret, clock, nextId>>

-----------------------------------------------------------------------------

Init ==
    /\ daily = {}
    /\ ai = {}
    /\ priceLog = <<>>
    /\ pc = [s \in Sessions |-> "idle"]
    /\ loc = [s \in Sessions |-> IdleLoc]
    /\ out = [s \in Sessions |-> NoOut]
    /\ ret = [s \in Sessions |-> <<>>]
    /\ clock = 1
    /\ nextId = 1

\* handlers run one after the other, each in a fresh session:
\* the scheduler's captures and the lazy refresh
Next ==
    \/ \E cp \in AllCheckpoints, f \in FeedNames : CapturePrice("s1", cp, f)
    \/ \E force \in BOOLEAN, f \in FeedNames : RefreshActuals("s1", force, f)

Spec == Init /\ [][Next]_vars

\* captures while the source has no data for the date, and the lazy refresh
\* over every minute series
NextUnavailable ==
    \/ \E cp \in AllCheckpoints, f \in {"none", "quote"} : CapturePrice("s1", cp, f)
    \/ \E force \in BOOLEAN, f \in FeedNames : RefreshActuals("s1", force, f)

SpecUnavailable == Init /\ [][NextUnavailable]_vars

\* the scheduler's captures and the admin refresh of official prices
NextAdmin ==
    \/ \E cp \in AllCheckpoints, f \in FeedNames : CapturePrice("s1", cp, f)
    \/ \E force \in BOOLEAN, f \in FeedNames : AdminRefreshOfficial("s1", force, f)

SpecAdmin == Init /\ [][NextAdmin]_vars

\* publishing bands (manual, AI, service) and capturing the close
NextBand ==
    \/ \E p \in PayloadNames : CreateOrUpdatePrediction("s1", p)
    \/ \E b \in BatchNames : CreateAIPredictionForDate("s1", b)
    \/ \E n \in BandNames, source \in {"ai", "manual"}, locked \in BOOLEAN :
           CreateOrUpdateDailyPrediction("s1", n, source, locked)
    \/ \E f \in {"full", "quote"} : CapturePrice("s1", "close", f)

SpecBand == Init /\ [][NextBand]_vars

\* the canonical read over any small set of stored rows
RowAttrs == {"open", "close"} \X (1..MaxCreated) \X Dates

StoredRows(n, attr) ==
    {NewAIPrediction(i, attr[i][3], attr[i][1], 580 + i, "ctxA", attr[i][2])
        : i \in 1..n}

InitCanonical ==
    /\ \E n \in 0..MaxRows : \E attr \in [1..n -> RowAttrs] :
           ai = StoredRows(n, attr)
    /\ daily = {}
    /\ priceLog = <<>>
    /\ pc = [s \in Sessions |-> "idle"]
    /\ loc = [s \in Sessions |-> IdleLoc]
    /\ out = [s \in Sessions |-> NoOut]
    /\ ret = [s \in Sessions |-> <<>>]
    /\ clock = MaxCreated + 1
    /\ nextId = MaxRows + 1

NextCanonical == \E d \in Dates : GetUniquePredictions("s1", d)

SpecCanonical == InitCanonical /\ [][NextCanonical]_vars

\* two sessions run get_or_create_predictions_for_date at the same time
NextRaceAtomic ==
    \E s \in Sessions :
        \/ \E force \in BOOLEAN, b \in BatchNames : GetOrCreateStart(s, force, b)
        \/ GetOrCreateDeleteBegin(s)
        \/ GetOrCreateDelete(s)
        \/ GetOrCreateFlush(s)
        \/ GetOrCreateCommit(s)

SpecRaceAtomic == Init /\ [][NextRaceAtomic]_vars

\* two sessions run create_ai_prediction_for_date at the same time
NextRaceAI ==
    \E s \in Sessions :
        \/ \E b \in BatchNames : CreateAIStart(s, b)
        \/ CreateAIFlush(s)
        \/ CreateAICommit(s)

SpecRaceAI == Init /\ [][NextRaceAI]_vars

\* the scheduler's capture and the lazy refresh run at the same time
NextRaceCapture ==
    \E s \in Sessions :
        \/ \E cp \in {"open", "noon"}, f \in {"full", "late"} :
               CapturePriceStart(s, cp, f)
        \/ CapturePriceFlush(s)
        \/ CapturePriceCommit(s)
        \/ \E f \in {"full", "late"} : RefreshActualsStart(s, FALSE, f)
        \/ RefreshActualsFlush(s)
        \/ RefreshActualsCommit(s)

SpecRaceCapture == Init /\ [][NextRaceCapture]_vars

\* the two simulation entry points, over any calendar of trading days
NextSimulation ==
    \/ \E market \in SUBSET Days, end_date \in Days,
          num_days \in NumDaysChoices, lookback \in LookbackChoices :
           RunSimulationStart("s1", market, end_date, num_days, lookback)
    \/ \E b \in BatchNames : SimulateSingleDay("s1", b)
    \/ \E market \in SUBSET Days, today \in Days,
          num_days \in NumDaysChoices, lookback \in LookbackChoices :
           AdminSimulateStart("s1", market, today, num_days, lookback)
    \/ \E b \in BatchNames : AdminSimulateDay("s1", b)

SpecSimulation == Init /\ [][NextSimulation]_vars

\* the two refreshes over values the scheduler captured from the live quote
NextRefresh ==
    \/ \E cp \in {"open", "noon"} : CapturePrice("s1", cp, "quote")
    \/ \E force \in BOOLEAN, f \in FeedNames : RefreshActuals("s1", force, f)
    \/ \E force \in BOOLEAN, f \in FeedNames : AdminRefreshOfficial("s1", force, f)

SpecRefresh == Init /\ [][NextRefresh]_vars

\* the two writers of a date's predictions outside the lock endpoint, in two
\* sessions at the same time, neither asked to replace
NextRaceWriters ==
    \E s \in Sessions :
        \/ \E b \in BatchNames : GetAIPredictionsStart(s, b)
        \/ GetAIPredictionsCommit(s)
        \/ GetAIPredictionsFinish(s)
        \/ \E b \in BatchNames : GetOrCreateStart(s, FALSE, b)
        \/ GetOrCreateFlush(s)
        \/ GetOrCreateCommit(s)

SpecRaceWriters == Init /\ [][NextRaceWriters]_vars

\* generate_predictions alone, over the outcomes of the model call and of the
\* baseline's market data
NextPredictor ==
    \E s \in Sessions, call \in CallOutcomes, data \in BaselineData,
       pre \in ContextPreMarket, prev \in ContextPreviousClose :
        GeneratePredictions(s, call, data, pre, prev)

SpecPredictor == Init /\ [][NextPredictor]_vars

\* the two range refreshes, each date with its own market data
NextRange ==
    \/ \E start \in Days, end \in Days, force \in BOOLEAN :
        RefreshRangeStart("s1", "refresh_actuals_range", start, end, force)
    \/ \E start \in Days, end \in Days, force \in BOOLEAN :
        RefreshRangeStart("s1", "refresh_official_prices_range", start, end, force)
    \/ \E f \in RangeFeeds : RefreshActualsRangeStep("s1", f)
    \/ \E f \in RangeFeeds : RefreshOfficialRangeStep("s1", f)

SpecRange == Init /\ [][NextRange]_vars

\* _get_bar_at_or_before alone, over the series around each checkpoint's target
NextBars ==
    \E cp \in AICheckpoints, offsets \in SUBSET Offsets :
        SelectBar("s1", cp, offsets)

SpecBars == Init /\ [][NextBars]_vars

\* validate_official_price alone, over the sample values and symbols
NextValidate ==
    \E s \in Sessions, price \in PriceValues, symbol \in SymbolNames :
        ValidatePrice(s, price, symbol)

SpecValidate == Init /\ [][NextValidate]_vars

\* bands from POST /prediction, closes from the capture and from the
\* minute-series refresh (which recomputes nothing), and the recompute
NextRecompute ==
    \/ \E p \in PayloadNames : CreateOrUpdatePrediction("s1", p)
    \/ \E f \in {"full", "quote"} : CapturePrice("s1", "close", f)
    \/ \E force \in BOOLEAN : RefreshActuals("s1", force, "full")
    \/ RecomputeDay("s1")

SpecRecompute == Init /\ [][NextRecompute]_vars

\* storage that holds duplicate rows of a (date, checkpoint): the canonical
\* read and the minute-series refresh of D1
NextDuplicates ==
    \/ \E d \in Dates : GetUniquePredictions("s1", d)
    \/ \E force \in BOOLEAN, f \in {"none", "full", "late"} :
           RefreshActuals("s1", force, f)

SpecDuplicates == InitCanonical /\ [][NextDuplicates]_vars

\* the capture paths resolving the checkpoints' target times
NextResolve ==
    \E s \in Sessions, path \in ResolvePaths, cp \in AICheckpoints :
        ResolveCheckpoint(s, path, cp)

SpecResolve == Init /\ [][NextResolve]_vars

\* the minute-series refresh over a full series, a series that starts late and
\* one that starts before the open, on rows with captured fields
ExtractFeeds == {"full", "late", "early"}

NextExtract ==
    \/ \E cp \in {"open", "noon"} : CapturePrice("s1", cp, "quote")
    \/ \E force \in BOOLEAN, f \in ExtractFeeds : RefreshActuals("s1", force, f)

SpecExtract == Init /\ [][NextExtract]_vars

\* one client at a time: the two read-or-generate handlers, unforced, on a
\* date whose actuals are being captured
NextExisting ==
    \/ \E b \in {"A", "fail"} : GetAIPredictionsStart("s1", b)
    \/ GetAIPredictionsCommit("s1")
    \/ GetAIPredictionsFinish("s1")
    \/ \E b \in {"A", "fail"} : GetOrCreateStart("s2", FALSE, b)
    \/ GetOrCreateFlush("s2")
    \/ GetOrCreateCommit("s2")
    \/ CapturePrice("s1", "open", "quote")

SpecExisting == Init /\ [][NextExisting]_vars

\* the band writers that can lock a day, and the three callers of
\* create_ai_prediction_for_date
NextLocked ==
    \/ \E n \in BandNames, source \in {"ai", "manual"}, locked \in BOOLEAN :
           CreateOrUpdateDailyPrediction("s1", n, source, locked)
    \/ \E b \in BatchNames : CreateAIPredictionForDate("s1", b)
    \/ \E b \in BatchNames : RunAIPrediction("s1", b)
    \/ \E b \in BatchNames, weekday \in BOOLEAN, past8am \in BOOLEAN :
           WarmupAIPredictions("s1", b, weekday, past8am)

SpecLocked == Init /\ [][NextLocked]_vars

\* yesterday's row is stored, its checkpoints not captured
InitRead ==
    /\ daily = {NewDailyPrediction(D0)}
    /\ ai = {}
    /\ priceLog = <<>>
    /\ pc = [s \in Sessions |-> "idle"]
    /\ loc = [s \in Sessions |-> IdleLoc]
    /\ out = [s \in Sessions |-> NoOut]
    /\ ret = [s \in Sessions |-> <<>>]
    /\ clock = 1
    /\ nextId = 1

\* a page reads a day while the scheduler captures today's open
NextRead ==
    \/ \E op \in ReadOps, day \in Dates, f \in {"none", "full"} :
           ReadDayStart("s1", op, day, f)
    \/ ReadDayFlush("s1")
    \/ ReadDayRefresh("s1")
    \/ GetDayRead("s1")
    \/ GetAIPredictionsEndpointRead("s1", "A")
    \/ GetAIPredictionsCommit("s1")
    \/ GetAIPredictionsFinish("s1")
    \/ CapturePriceStart("s2", "open", "quote")
    \/ CapturePriceFlush("s2")
    \/ CapturePriceCommit("s2")

SpecRead == InitRead /\ [][NextRead]_vars

\* rows of five dates are stored, two of them price logs written more than a
\* month ago
InitRetention ==
    /\ daily = {NewDailyPrediction(d) : d \in RetentionDates}
    /\ ai = {NewAIPrediction(1, DayOld, "open", 580, "ctxA", 1),
             NewAIPrediction(2, DayCutoff, "open", 581, "ctxA", 1),
             NewAIPrediction(3, DayFuture, "open", 582, "ctxA", 1)}
    /\ priceLog = <<NewPriceLog(DayOld, "close", 580),
                    NewPriceLog(DayCutoff, "close", 581)>>
    /\ pc = [s \in Sessions |-> "idle"]
    /\ loc = [s \in Sessions |-> IdleLoc]
    /\ out = [s \in Sessions |-> NoOut]
    /\ ret = [s \in Sessions |-> <<>>]
    /\ clock = 2
    /\ nextId = 4

\* prices are logged for any date, captured and refreshed for today, the
\* nightly cleanup runs today and tomorrow, the admin removes future rows
NextRetention ==
    \/ \E cp \in {"close", "bogus"}, d \in RetentionDates :
           /\ Len(priceLog) < MaxKept
           /\ LogCheckpoint("s1", cp, d, 583)
    \/ CapturePrice("s1", "close", "quote")
    \/ \E force \in BOOLEAN : AdminRefreshOfficial("s1", force, "full")
    \/ \E today \in {D1, DayFuture}, fail \in CleanupFailures :
           RunDailyCleanup("s1", today, fail)
    \/ \E today \in {D1, DayFuture} : CleanupFutureData("s1", today)

SpecRetention == InitRetention /\ [][NextRetention]_vars

\* the official price of any checkpoint name, over every feed and both
\* outcomes of the lookup
LookupFeeds == FeedNames \cup {"early", "daily", "minute"}

NextOfficial ==
    \E s \in Sessions, lookup \in LookupOutcomes, f \in LookupFeeds,
       cp \in AllCheckpoints \cup {"bogus"} :
        LookupOfficialPrice(s, lookup, f, cp)

SpecOfficial == Init /\ [][NextOfficial]_vars

\* simulations of the same two trading days run again and again, through
\* both entry points, the model answering with all or part of the keys
StoreBatches == {"A", "B", "partial", "empty"}

NextStore ==
    \/ \E end_date \in {2, 3} :
           RunSimulationStart("s1", {1, 2, 3}, end_date, 1, 1)
    \/ \E b \in StoreBatches \cup {"fail"} : SimulateAndStoreDay("s1", b)
    \/ AdminSimulateStart("s1", {1, 2, 3}, 3, 1, 1)
    \/ \E b \in {"A", "B", "partial", "fail"} : AdminSimulateDay("s1", b)

SpecStore == Init /\ [][NextStore]_vars

\* the model's replies parsed, and the predictions of a reply stored by the
\* read that generates on demand
NextKeys ==
    \/ \E n \in ReplyNames : ParseReply("s2", n)
    \/ \E n \in {"extra", "short"} : GetAIPredictionsStart("s1", n)
    \/ GetAIPredictionsCommit("s1")
    \/ GetAIPredictionsFinish("s1")

SpecKeys == Init /\ [][NextKeys]_vars

\* predictions are generated, then regenerated under force while another
\* session does the same; any statement of a forced call may raise
NextRegenerate ==
    \/ \E b \in {"A", "fail"} : GetOrCreateStart("s1", FALSE, b)
    \/ \E b \in {"B", "fail"} : GetOrCreateStart("s1", TRUE, b)
    \/ GetOrCreateStart("s2", TRUE, "A")
    \/ \E s \in Sessions :
        \/ GetOrCreateDeleteBegin(s)
        \/ GetOrCreateDelete(s)
        \/ GetOrCreateFlush(s)
        \/ GetOrCreateCommit(s)
        \/ GetOrCreateRaise(s)

SpecRegenerate == Init /\ [][NextRegenerate]_vars

\* predictions are generated and read, today's open is captured from the
\* quote, and the two refreshes run over the full minute series
NextActuals ==
    \/ GetAIPredictionsStart("s1", "A")
    \/ GetAIPredictionsCommit("s1")
    \/ GetAIPredictionsFinish("s1")
    \/ CapturePrice("s1", "open", "quote")
    \/ \E force \in BOOLEAN : RefreshActuals("s1", force, "full")
    \/ \E force \in BOOLEAN : AdminRefreshOfficial("s1", force, "full")

SpecActuals == Init /\ [][NextActuals]_vars

\* POST /ai/predict/{date} from two clients, for a day with or without a row,
\* with answers that carry more or fewer keys than the four checkpoints
CreatedBatches == {"A", "B", "extra", "partial", "fail"}

NextCreated ==
    \/ \E s \in Sessions :
        \/ \E b \in CreatedBatches : CreateAIStart(s, b)
        \/ CreateAIFlush(s)
        \/ CreateAICommit(s)
    \/ CapturePrice("s1", "preMarket", "quote")

SpecCreated == Init /\ [][NextCreated]_vars

\* 08:00 on a weekday without a row: the AI-prediction job and the preMarket
\* capture job, each run once, on the scheduler's thread pool
MorningBatches == {"A", "B", "extra", "partial"}
MorningFeeds == {"quote", "full", "daily"}

NextMorning ==
    \/ \E b \in MorningBatches :
           out["s1"] = NoOut /\ RunAIPredictionStart("s1", b)
    \/ CreateAIFlush("s1")
    \/ CreateAICommit("s1")
    \/ \E f \in MorningFeeds :
           out["s2"] = NoOut /\ CapturePriceStart("s2", "preMarket", f)
    \/ CapturePriceFlush("s2")
    \/ CapturePriceCommit("s2")

SpecMorning == Init /\ [][NextMorning]_vars

\* the canonical read by the application, the cleanup script beside it, on
\* tables that may hold duplicates
NextCleanup ==
    \/ \E d \in Dates : GetUniquePredictions("s1", d)
    \/ CleanupDuplicatePredictions("s2")

SpecCleanup == InitCanonical /\ [][NextCleanup]_vars

-----------------------------------------------------------------------------
(* Properties                                                              *)

\* the checkpoint fields of D1's row that hold a value keep it in this step
PopulatedFieldsKept ==
    HasRow(D1) =>
        /\ HasRow(D1)'
        /\ \A c \in AllCheckpoints :
               Row(D1)[c] # None => Row(D1)'[c] = Row(D1)[c]

\* C1: a checkpoint field that already holds a value is never changed by an
\* operation that was not given force=true (capture_price has no force
\* argument; refresh_actuals_for_date is called with force=False)
C1_PopulatedFieldKeptWithoutForce ==
    [][((\E cp \in AllCheckpoints, f \in FeedNames : CapturePrice("s1", cp, f))
        \/ (\E f \in FeedNames : RefreshActuals("s1", FALSE, f)))
       => PopulatedFieldsKept]_vars

\* the last handler run was capture_price for cp, it resolved the price the
\* feed f gives for cp and stored it
CapturedBefore(cp, f) ==
    /\ out["s1"].op = "capture_price"
    /\ out["s1"].result = "ok"
    /\ Len(priceLog) > 0
    /\ priceLog[Len(priceLog)] =
           NewPriceLog(D1, cp, GetOfficialCheckpointPrice(Feed(f), cp))

\* C2: capture_price called a second time for the same (date, checkpoint) with
\* identical upstream data leaves the stored state as the first call left it
\* and appends no PriceLog entry
C2_SecondCaptureWritesNothing ==
    [][\A cp \in AllCheckpoints, f \in FeedNames :
          (CapturedBefore(cp, f) /\ CapturePrice("s1", cp, f))
              => (daily' = daily /\ priceLog' = priceLog)]_vars

\* C9: when the resolved price is None or fails validate_official_price, the
\* capture writes nothing: no DailyPrediction row is created or modified and
\* no PriceLog entry is added (scheduler capture_price; admin refresh of
\* official prices when every checkpoint's price is missing or rejected)
C9_InvalidPriceWritesNothing ==
    [][/\ \A cp \in AllCheckpoints, f \in FeedNames :
              (CapturePrice("s1", cp, f)
                  /\ ~ValidateOfficialPrice(
                         GetOfficialCheckpointPrice(Feed(f), cp), Symbol))
                  => (daily' = daily /\ priceLog' = priceLog)
       /\ \A force \in BOOLEAN, f \in FeedNames :
              (AdminRefreshOfficial("s1", force, f)
                  /\ AdminRefreshInvalid(Feed(f)) = AICheckpoints)
                  => (daily' = daily /\ priceLog' = priceLog)]_vars

\* the feed has no data at all for the date
NoDataForDate(f) == Feed(f).ohlc = NoOhlc /\ DOMAIN Feed(f).bars = {}

\* the minute series has no bar at or before minute t (UTC)
NoBarUpTo(f, t) == \A u \in DOMAIN Feed(f).bars : u > t

\* the checkpoint field cp of D1 is not written in this step
FieldUntouched(cp) ==
    IF HasRow(D1) THEN HasRow(D1)' /\ Row(D1)'[cp] = Row(D1)[cp]
    ELSE HasRow(D1)' => Row(D1)'[cp] = None

\* C10 as stated: with no data for the date, or no bar at or before the
\* checkpoint's target time, capturing the checkpoint writes nothing and raises
\* no exception
C10_NoDataWritesNothing ==
    [][/\ \A cp \in AICheckpoints, f \in FeedNames :
              (NoDataForDate(f) /\ out'["s1"].op = "capture_price"
                  /\ CapturePrice("s1", cp, f))
                  => (FieldUntouched(cp) /\ priceLog' = priceLog
                      /\ out'["s1"].result \in {"ok", "skipped"})
       /\ \A force \in BOOLEAN, f \in FeedNames :
              (out'["s1"].op = "refresh_actuals" /\ RefreshActuals("s1", force, f))
                  => /\ out'["s1"].result = "ok"
                     /\ \A cp \in AICheckpoints :
                            NoBarUpTo(f, ChicagoToUtc(CHECKPOINTS(cp)))
                                => FieldUntouched(cp)]_vars

\* C10 amended: refresh_actuals_for_date leaves a checkpoint field as it was,
\* and raises nothing, when the minute series is empty or has no bar up to one
\* minute after the checkpoint's target; capture_price with no data for the
\* date stores the current quote when it passes validation and writes nothing
\* otherwise, and raises nothing either way
C10_UnavailableBarSkipsWrite ==
    [][/\ \A force \in BOOLEAN, f \in FeedNames :
              (out'["s1"].op = "refresh_actuals" /\ RefreshActuals("s1", force, f))
                  => /\ out'["s1"].result = "ok"
                     /\ priceLog' = priceLog
                     /\ \A cp \in AICheckpoints :
                            NoBarUpTo(f, ChicagoToUtc(CHECKPOINTS(cp)) + 1)
                                => FieldUntouched(cp)
       /\ \A cp \in AICheckpoints, f \in FeedNames :
              (NoDataForDate(f) /\ out'["s1"].op = "capture_price"
                  /\ CapturePrice("s1", cp, f))
                  => IF ValidateOfficialPrice(Feed(f).quote, Symbol)
                     THEN /\ HasRow(D1)' /\ Row(D1)'[cp] = Feed(f).quote
                          /\ out'["s1"].result = "ok"
                     ELSE /\ daily' = daily /\ priceLog' = priceLog
                          /\ out'["s1"].result = "skipped"]_vars

\* refresh_actuals_for_date found bars for the date but none for the open,
\* left open unset and filled noon from the bar one minute after its target
C10_Unavailable_Witness ==
    /\ out["s1"].op = "refresh_actuals"
    /\ out["s1"].result = "ok"
    /\ out["s1"].unavailable = {"open"}
    /\ HasRow(D1)
    /\ Row(D1).open = None
    /\ Row(D1).noon = 584

\* C3: once D1's DailyPrediction has locked = true no operation changes its
\* predLow or predHigh, and an attempt to publish a band for it fails
C3_LockedBandNeverChanges ==
    [][DayLocked(D1) =>
          /\ HasRow(D1)'
          /\ Row(D1)'.predLow = Row(D1).predLow
          /\ Row(D1)'.predHigh = Row(D1).predHigh
          /\ out'["s1"].op \in {"create_ai_prediction",
                                "create_or_update_prediction",
                                "create_or_update_daily_prediction"}
                => out'["s1"].result \in {"HTTP409", "PredictionLockedException"}]_vars

\* C8: whenever close, predLow and predHigh of D1 are all set, rangeHit is
\* (predLow <= close <= predHigh) and absErrorToClose is |close - mid| (kept in
\* half dollars), whichever operation last wrote the close or the band
C8_DerivedFieldsConsistent ==
    \A r \in daily :
        (r.close # None /\ r.predLow # None /\ r.predHigh # None)
            => /\ r.rangeHit = Bool(r.predLow <= r.close /\ r.close <= r.predHigh)
               /\ r.absErrorToClose = Abs(2 * r.close - (r.predLow + r.predHigh))

\* C4: get_unique_predictions_for_date returns at most one record per
\* checkpoint, each a stored row of the date, and of the stored rows sharing
\* its (date, checkpoint) it is one with the greatest created_at
C4_CanonicalNewestPerCheckpoint ==
    out["s1"].op = "get_unique_predictions" =>
        /\ \A i, j \in 1..Len(ret["s1"]) :
               i # j => ret["s1"][i].checkpoint # ret["s1"][j].checkpoint
        /\ \A i \in 1..Len(ret["s1"]) :
               /\ ret["s1"][i] \in ai
               /\ \A r \in ai :
                      SameKey(r, ret["s1"][i])
                          => r.created_at <= ret["s1"][i].created_at

\* the read returned a row that has an older duplicate in the store
C4_NewestOfDuplicates_Witness ==
    /\ out["s1"].op = "get_unique_predictions"
    /\ \E i \in 1..Len(ret["s1"]) :
           \E r \in ai :
               /\ SameKey(r, ret["s1"][i])
               /\ r.created_at < ret["s1"][i].created_at

\* session s is about to flush a batch one of whose (date, checkpoint) keys a
\* committed row it has not deleted already holds
KeyTaken(s) ==
    \E q \in ai \ loc[s].deleted :
        /\ q.date = loc[s].date
        /\ \E i \in 1..Len(Batch(loc[s].batch).predictions) :
               Batch(loc[s].batch).predictions[i].checkpoint = q.checkpoint

\* C5: when the flush of create_predictions_atomic meets the (date, checkpoint)
\* uniqueness violation, the call rolls back, none of its rows are stored, the
\* stored rows stay as the other call committed them, and the canonical read
\* it returns (when not replacing) is of those rows
C5_LoserRollsBack ==
    [][\A s \in Sessions :
          (pc[s] = "gc_flush" /\ pc'[s] # "gc_flush" /\ KeyTaken(s))
              => /\ ai' = ai
                 /\ pc'[s] = "idle"
                 /\ loc'[s].pendingAI = {}
                 /\ loc'[s].deleted = {}
                 /\ out'[s].result \in {"adopted", "IntegrityError"}
                 /\ out'[s].result = "adopted"
                        => /\ ret'[s] \in GetUniquePredictionsForDate(ai, D1)
                           /\ ret'[s] # <<>>]_vars

\* one session committed its four rows, the other hit the violation and
\* returned the very same rows
C5_LoserAdopts_Witness ==
    /\ out["s1"].op = "get_or_create_predictions"
    /\ out["s1"].result = "ok"
    /\ out["s2"].result = "adopted"
    /\ Len(ret["s1"]) = 4
    /\ ret["s2"] = ret["s1"]
    /\ ai = {ret["s1"][i] : i \in 1..4}

\* C6: two concurrent create_ai_prediction_for_date calls on an unlocked date
\* leave the band and the rows of one single call, and the call that meets the
\* uniqueness violation goes on to adopt the stored band and completes
C6_LoserAdoptsAndCompletes ==
    [][\A s \in Sessions :
          /\ (pc[s] = "ca_flush" /\ pc'[s] # "ca_flush" /\ KeyTaken(s))
                => pc'[s] = "ca_commit"
          /\ (pc[s] = "ca_commit" /\ pc'[s] = "idle")
                => /\ out'[s].result = "ok"
                   /\ HasRow(D1)'
                   /\ \E unique \in GetUniquePredictionsForDate(ai', D1) :
                          /\ Row(D1)'.predLow = ComputeBandFromPredictions(unique).low
                          /\ Row(D1)'.predHigh = ComputeBandFromPredictions(unique).high
                   /\ \A r, q \in ai' : r.market_context = q.market_context]_vars

\* C7: capture_price and refresh_actuals_for_date running concurrently for D1
\* both complete without an error, and the store holds at most one row for D1
C7_ConcurrentCapturesComplete ==
    /\ \A s \in Sessions : out[s].result \in {"none", "ok", "skipped"}
    /\ Cardinality(daily) <= 1

\* C11: every data point of every context a simulation builds for a date D
\* (the history rows and the current-price proxy) is dated strictly before D
C11_ContextStrictlyBeforeDate ==
    \A s \in Sessions : \A i \in 1..Len(ret[s]) :
        /\ \A t \in ret[s][i].history : t < ret[s][i].target_date
        /\ ret[s][i].proxy # None => ret[s][i].proxy < ret[s][i].target_date

\* the checkpoint cp of D1's row holds a value before the step
Populated(cp) == HasRow(D1) /\ Row(D1)[cp] # None

\* cp holds v after the step
FieldBecomes(cp, v) == HasRow(D1)' /\ Row(D1)'[cp] = v

\* what refresh_actuals_for_date resolves for cp from the minute series of f
RefreshResolves(f, cp) ==
    LET t == GetBarAtOrBefore(Feed(f).bars, CHECKPOINTS(cp))
    IN  IF t = None THEN None ELSE BarValue(Feed(f).bars, cp, t)

\* C12: a checkpoint field holding V, refreshed while the source resolves a
\* valid price P for it, holds V after a refresh with force = false and P after
\* a refresh with force = true (refresh_actuals_for_date and the admin refresh
\* of official prices)
C12_ForceDecidesOverwrite ==
    [][/\ out'["s1"].op = "refresh_actuals" =>
            \A force \in BOOLEAN, f \in FeedNames :
                RefreshActuals("s1", force, f) =>
                    \A cp \in AICheckpoints :
                        (/\ Populated(cp)
                         /\ ValidateOfficialPrice(RefreshResolves(f, cp), Symbol))
                            => FieldBecomes(cp, IF force THEN RefreshResolves(f, cp)
                                                ELSE Row(D1)[cp])
       /\ out'["s1"].op = "refresh_official_prices" =>
            \A force \in BOOLEAN, f \in FeedNames :
                (Feed(f).ohlc # NoOhlc /\ AdminRefreshOfficial("s1", force, f)) =>
                    \A cp \in AICheckpoints :
                        (/\ Populated(cp)
                         /\ ValidateOfficialPrice(AdminRefreshPrice(Feed(f), cp), Symbol))
                            => FieldBecomes(cp, IF force
                                                THEN AdminRefreshPrice(Feed(f), cp)
                                                ELSE Row(D1)[cp])]_vars

\* noon was captured as 581 (the only PriceLog row) and a forced refresh from
\* the minute series has replaced it by the 12:00 bar's close
C12_ForcedReplace_Witness ==
    /\ out["s1"].op = "refresh_actuals"
    /\ out["s1"].result = "ok"
    /\ priceLog = <<NewPriceLog(D1, "noon", 581)>>
    /\ HasRow(D1)
    /\ Row(D1).noon = 584

\* C13: the locked flag of D1's DailyPrediction is monotonic: once it is true
\* no operation sets it back to false or null while the row exists
C13_LockedIsMonotonic ==
    [][DayLocked(D1) /\ HasRow(D1)' => DayLocked(D1)']_vars

\* C14: at all times daily_predictions holds at most one row per date, and a
\* session that found no row and inserts one after another session stored the
\* date's row is rejected by the store, which stays as it was
C14_OneRowPerDate ==
    /\ [](\A r, q \in daily : r.date = q.date => r = q)
    /\ [][\A s \in Sessions :
              (/\ pc[s] \in {"cp_flush", "ra_flush"}
               /\ pc'[s] # pc[s]
               /\ HasRow(loc[s].date))
                  => /\ daily' = daily
                     /\ pc'[s] = "idle"
                     /\ out'[s].result = "IntegrityError"]_vars

\* one session's insert was rejected and the date's row is the other's
C14_SecondInsertRejected_Witness ==
    /\ \E s \in Sessions : out[s].result = "IntegrityError"
    /\ \E t \in Sessions : out[t].result = "ok"
    /\ Cardinality({r \in daily : r.date = D1}) = 1

\* session s leaves the statement that inserts its batch, having met the
\* (date, checkpoint) uniqueness violation
MeetsViolation(s) ==
    /\ pc[s] \in {"gc_flush", "gp_commit"}
    /\ pc'[s] # pc[s]
    /\ KeyTaken(s)

\* C15: on a uniqueness violation while writing a date's predictions, every
\* writer (create_predictions_atomic, get_ai_predictions_for_date) rolls back
\* and returns the existing canonical predictions instead of raising, unless
\* replacement was requested, in which case the error is raised
C15_ViolationReturnsCanonical ==
    [][\A s \in Sessions :
          MeetsViolation(s)
              => /\ ai' = ai
                 /\ IF loc[s].force
                    THEN out'[s].result = "IntegrityError"
                    ELSE /\ out'[s].result \in {"adopted", "ok"}
                         /\ ret'[s] \in GetUniquePredictionsForDate(ai, D1)
                         /\ ret'[s] # <<>>]_vars

\* C16: when get_or_create_predictions_for_date cannot generate (or store)
\* predictions and canonical predictions existed for the date before the call,
\* the call returns those predictions instead of raising
C16_FailureFallsBackToExisting ==
    [][\A s \in Sessions, force \in BOOLEAN :
          (/\ GetUniquePredictionsForDate(ai, D1) # {<<>>}
           /\ GetOrCreateStart(s, force, "fail"))
              => /\ out'[s].result = "ok"
                 /\ ret'[s] \in GetUniquePredictionsForDate(ai, D1)]_vars

\* C17: when the model call fails, generate_predictions returns the four
\* predictions of the statistical baseline or raises; it never returns an
\* empty set or predictions from another source
C17_FailureGivesBaselineOrError ==
    \A s \in Sessions :
        (out[s].op = "generate_predictions"
            /\ out[s].result \in {"timeout", "malformed", "refusal"})
        => /\ Len(ret[s]) = 4
           /\ \A i \in 1..4 : ret[s][i].source = "baseline"

\* the PriceLog rows (D1, cp, .) the step appends
LoggedFor(cp) ==
    { i \in (Len(priceLog) + 1)..Len(priceLog') :
        priceLog'[i].date = D1 /\ priceLog'[i].checkpoint = cp }

\* C18: a step that changes a checkpoint field of D1's DailyPrediction appends
\* exactly one PriceLog row, carrying (D1, checkpoint, the new price); a step
\* appends no PriceLog row for a checkpoint whose field it leaves unset
C18_OneLogPerFieldWrite ==
    [][/\ Len(priceLog') >= Len(priceLog)
       /\ \A cp \in AICheckpoints :
            /\ ~FieldUntouched(cp)
                => /\ Cardinality(LoggedFor(cp)) = 1
                   /\ \A i \in LoggedFor(cp) : priceLog'[i].price = Row(D1)'[cp]
            /\ \A i \in LoggedFor(cp) : FieldBecomes(cp, priceLog'[i].price)]_vars

\* the rows of the dates other than d are as they were before the step
OtherDatesKept(d) ==
    {r \in daily' : r.date # d} = {r \in daily : r.date # d}

\* C19: a range refresh that enters its loop leaves it only after the last
\* date, with one result per date from start to end in order (a date without
\* data or whose refresh failed has its own entry), and the step of one date
\* changes no row of another date
C19_RangeCoversEveryDate ==
    [][\A s \in Sessions :
        pc[s] = "rr_loop" =>
            /\ OtherDatesKept(CalendarDates[loc[s].current])
            /\ pc'[s] = "idle" =>
                /\ out'[s].result \in {"success", "completed"}
                /\ Len(ret'[s]) = loc[s].end - loc[s].start + 1
                /\ \A i \in 1..Len(ret'[s]) :
                    ret'[s][i].date = CalendarDates[loc[s].start + i - 1]]_vars

\* the bar selections a session holds
Selections(s) ==
    IF out[s].op = "get_bar_at_or_before" THEN {ret[s][1]} ELSE {}

Validations(s) ==
    IF out[s].op = "validate_official_price" THEN {ret[s][1]} ELSE {}

\* the value is a number (or the text of one) within the symbol's bounds
NumberWithinBounds(price, symbol) ==
    /\ price.kind \in {"num", "numstr"}
    /\ IF symbol \in {"SPY", "spy"}
       THEN 50 <= price.v /\ price.v <= 2000
       ELSE 1 <= price.v /\ price.v <= 10000

\* C21: validate_official_price accepts a value exactly when it is a number p
\* with min <= p <= max (50 and 2000 for SPY, 1 and 10000 for another symbol)
C21_AcceptsExactlyBoundedNumbers ==
    \A s \in Sessions : \A r \in Validations(s) :
        r.accepted <=> NumberWithinBounds(r.price, r.symbol)

\* close and both ends of the band are set
DerivedInputsSet(r) == r.close # None /\ r.predHigh # None /\ r.predLow # None

\* C22: the row recompute_day leaves is a fixed point of _update_derived_fields;
\* its rangeHit and absErrorToClose (half dollars) are determined by close,
\* predLow and predHigh alone when the three are set and are the stored ones
\* otherwise; predLow=580, predHigh=585, close=583 give rangeHit true and an
\* error of 0.5
C22_DerivedFieldsIdempotent ==
    [][(out'["s1"].op = "recompute_day" /\ HasRow(D1) /\ RecomputeDay("s1")) =>
        LET r == Row(D1)'
        IN  /\ UpdateDerivedFields(r) = r
            /\ UpdateDerivedFields(UpdateDerivedFields(Row(D1))) = r
            /\ DerivedInputsSet(r) =>
                /\ r.rangeHit = True <=> (r.predLow <= r.close /\ r.close <= r.predHigh)
                /\ r.rangeHit \in {True, False}
                /\ r.absErrorToClose = Abs(2 * r.close - (r.predLow + r.predHigh))
            /\ ~DerivedInputsSet(r) =>
                /\ r.rangeHit = Row(D1).rangeHit
                /\ r.absErrorToClose = Row(D1).absErrorToClose
            /\ (r.predLow = 580 /\ r.predHigh = 585 /\ r.close = 583) =>
                (r.rangeHit = True /\ r.absErrorToClose = 1)]_vars

\* the band 580..585 with close 583, recomputed: hit, half a dollar off the
\* midpoint
C22_Recomputed_Witness ==
    /\ out["s1"].op = "recompute_day"
    /\ out["s1"].result = "ok"
    /\ HasRow(D1)
    /\ Row(D1).predLow = 580 /\ Row(D1).predHigh = 585 /\ Row(D1).close = 583
    /\ Row(D1).rangeHit = True /\ Row(D1).absErrorToClose = 1
    /\ ret["s1"] = << Row(D1) >>

\* C23: the operations that read or complete the predictions of a date succeed
\* whatever duplicate rows storage holds: the canonical read returns, and the
\* minute-series refresh completes the actuals without raising
C23_SucceedsOnDuplicates ==
    \A s \in Sessions :
        out[s].op \in {"refresh_actuals", "get_unique_predictions"}
            => out[s].result = "ok"

\* C24: for the close checkpoint the selected bar is never later than the
\* nominal close (15:00 America/Chicago): it is the last bar at or before it
C24_CloseBarNotAfterClose ==
    \A s \in Sessions : \A r \in Selections(s) :
        (r.target = ChicagoToUtc(CHECKPOINTS("close")) /\ r.selected # None)
            => /\ r.selected <= r.target
               /\ r.selected = SetMax({t \in r.index : t <= r.target})

\* the checkpoint resolutions a session holds
Resolutions(s) ==
    IF out[s].op = "resolve_checkpoint" THEN {ret[s][1]} ELSE {}

\* C25: the scheduler path, the minute-series refresh and
\* get_checkpoint_datetime resolve a checkpoint name to the same instant
C25_PathsAgreeOnInstant ==
    \A s \in Sessions, t \in Sessions :
        \A r \in Resolutions(s), q \in Resolutions(t) :
            r.checkpoint = q.checkpoint => r.instant = q.instant

\* the refresh writes cp in this step: a bar is selected and the field is
\* empty or the refresh is forced
RefreshWrites(f, cp, force) ==
    /\ GetBarAtOrBefore(Feed(f).bars, CHECKPOINTS(cp)) # None
    /\ (force \/ ~Populated(cp))

\* the first bar of the series of f
FirstBar(f) == SetMin(DOMAIN Feed(f).bars)

CanonicalExists == GetUniquePredictionsForDate(ai, D1) # {<< >>}

\* the ids of the stored prediction rows
StoredIds(rows) == {r.id : r \in rows}

\* C27: with canonical predictions stored for the date and no forced
\* regeneration, get_or_create_predictions_for_date and
\* get_ai_predictions_for_date return canonical predictions whatever the
\* predictor would answer, do not enter generation, and insert or delete no
\* prediction row
C27_ExistingReturnedUntouched ==
    [][\A s \in Sessions :
        /\ (CanonicalExists /\ pc[s] = "idle"
              /\ out'[s].op = "get_or_create_predictions" /\ out'[s] # out[s]) =>
                \A b \in BatchNames :
                    GetOrCreateStart(s, FALSE, b) =>
                        /\ pc'[s] = "idle"
                        /\ out'[s].result = "ok"
                        /\ ret'[s] \in GetUniquePredictionsForDate(ai, D1)
                        /\ ai' = ai /\ clock' = clock /\ nextId' = nextId
        /\ (CanonicalExists /\ pc[s] = "idle" /\ pc'[s] # "idle") =>
                \A b \in BatchNames :
                    GetAIPredictionsStart(s, b) =>
                        /\ pc'[s] = "gp_finish"
                        /\ ret'[s] \in GetUniquePredictionsForDate(ai, D1)
                        /\ ai' = ai /\ clock' = clock /\ nextId' = nextId
        /\ (pc[s] = "gp_finish" /\ pc'[s] = "idle") =>
                /\ out'[s].result = "ok"
                /\ StoredIds(ai') = StoredIds(ai)
                /\ [i \in 1..Len(ret'[s]) |-> ret'[s][i].id]
                     = [i \in 1..Len(ret[s]) |-> ret[s][i].id]]_vars

\* one batch was generated and stored; both handlers have returned it
C27_ExistingReturned_Witness ==
    /\ out["s2"].op = "get_or_create_predictions" /\ out["s2"].result = "ok"
    /\ out["s1"].op = "get_ai_predictions" /\ out["s1"].result = "ok"
    /\ pc["s1"] = "idle" /\ pc["s2"] = "idle"
    /\ Len(ret["s1"]) = 4
    /\ StoredIds({ret["s2"][i] : i \in 1..Len(ret["s2"])})
          = StoredIds({ret["s1"][i] : i \in 1..Len(ret["s1"])})
    /\ Cardinality(ai) = 4
    /\ nextId = 5

\* the step leaves the day's row and the stored predictions as they were
DayUntouched == daily' = daily /\ ai' = ai /\ clock' = clock /\ nextId' = nextId

\* C28: on a date whose DailyPrediction is locked, create_ai_prediction_for_date
\* raises 409 and changes neither the row (band, source, lock) nor the stored
\* predictions; the 08:00 job and the startup warm-up return normally and
\* change nothing either
C28_LockedDayRefusesAndJobsAbsorb ==
    [][(HasRow(D1) /\ Row(D1).locked = True) =>
        \A b \in BatchNames :
            /\ CreateAIPredictionForDate("s1", b) =>
                   (DayUntouched /\ out'["s1"].result = "HTTP409")
            /\ RunAIPrediction("s1", b) =>
                   (DayUntouched /\ out'["s1"].result = "absorbed409")
            /\ \A weekday \in BOOLEAN, past8am \in BOOLEAN :
                   WarmupAIPredictions("s1", b, weekday, past8am) =>
                       (DayUntouched
                          /\ out'["s1"].result \in {"absorbed409", "skipped"})]_vars

\* the day is locked with the AI band and the 08:00 job, run again, has passed
\* over the 409
C28_JobAbsorbed_Witness ==
    /\ out["s1"].op = "run_ai_prediction"
    /\ out["s1"].result = "absorbed409"
    /\ HasRow(D1)
    /\ Row(D1).locked = True /\ Row(D1).source = "ai"
    /\ Cardinality(ai) = 4

\* the checkpoint fields of the stored days
CheckpointFields(rows) ==
    {[date |-> r.date, open |-> r.open, noon |-> r.noon, twoPM |-> r.twoPM,
      close |-> r.close] : r \in rows}

\* s is inside one of the two reads
Reading(s) ==
    /\ loc[s].op \in ReadOps
    /\ pc[s] \in {"rd_flush", "rd_commit", "rd_failed", "rd_read",
                  "gp_commit", "gp_finish"}

\* C29: GET /day/{day} and GET /ai/predictions/{date} enter the actuals
\* refresh only when the date is today; a step of a read of any other date
\* changes no checkpoint field of any day; and a read whose refresh failed
\* still answers as the read alone does (the day or not-found), never with the
\* refresh's failure
C29_LazyRefreshTodayOnly ==
    [][\A s \in Sessions :
        /\ pc'[s] \in {"rd_flush", "rd_commit", "rd_failed"} => loc'[s].date = D1
        /\ (Reading(s) /\ pc'[s] # pc[s] /\ loc[s].date # D1) =>
               CheckpointFields(daily') = CheckpointFields(daily)
        /\ (Reading(s) /\ pc[s] = "rd_failed" /\ pc'[s] = "idle") =>
               out'[s].result \in {"ok", "DataNotFound"}]_vars

\* the rows a cleanup run on the day today keeps
KeptRows(rows, today) ==
    {r \in rows : DateOrdinal(r.date) >= DateOrdinal(today) - KeepDays}

KeptLogs(logs, today) ==
    SelectSeq(logs, LAMBDA e : DateOrdinal(e.date) >= DateOrdinal(today) - KeepDays)

\* every entry of before is in after at its place, as it was written
LogsKept(before, after) ==
    /\ Len(before) <= Len(after)
    /\ \A i \in 1..Len(before) : after[i] = before[i]

\* s has just run the daily cleanup
CleanupRan(s) ==
    /\ out'[s].op = "run_daily_cleanup"
    /\ <<out'[s], ret'[s]>> # <<out[s], ret[s]>>

\* C30: a step that is not a successful daily cleanup leaves every PriceLog
\* entry stored and as it was written; a successful cleanup run on day T
\* removes exactly the DailyPrediction, AIPrediction and PriceLog rows dated
\* before T minus 30 days, and a cleanup that fails removes no row
C30_RetentionCleanupOnly ==
    [][/\ \A s \in Sessions :
            /\ (CleanupRan(s) /\ out'[s].result = "ok") =>
                  /\ daily' = KeptRows(daily, ret'[s][1].today)
                  /\ ai' = KeptRows(ai, ret'[s][1].today)
                  /\ priceLog' = KeptLogs(priceLog, ret'[s][1].today)
            /\ (CleanupRan(s) /\ out'[s].result = "failed") =>
                  /\ daily' = daily /\ ai' = ai /\ priceLog' = priceLog
       /\ ~LogsKept(priceLog, priceLog') =>
              \E s \in Sessions :
                  /\ out'[s].op = "run_daily_cleanup" /\ out'[s].result = "ok"
                  /\ priceLog' = KeptLogs(priceLog, ret'[s][1].today)]_vars

\* a cleanup of tomorrow has removed the log dated exactly thirty days before
\* today, after a cleanup of today kept it, and a log written since is stored
C30_CleanedTwice_Witness ==
    /\ out["s1"].op = "run_daily_cleanup" /\ out["s1"].result = "ok"
    /\ ret["s1"] = <<[today |-> DayFuture]>>
    /\ ~\E r \in daily : r.date \in {DayOld, DayCutoff}
    /\ ~\E r \in ai : r.date \in {DayOld, DayCutoff}
    /\ \E r \in ai : r.date = DayFuture
    /\ Len(priceLog) = 1 /\ priceLog[1].date = D0

\* the calls of get_official_checkpoint_price a session holds the answer of
Lookups(s) ==
    IF out[s].op = "get_official_checkpoint_price" THEN {ret[s][1]} ELSE {}

\* the data the checkpoint is read from is missing for the date
LookupDataMissing(r) ==
    \/ r.checkpoint \in {"open", "close"} /\ Feed(r.feed).ohlc = NoOhlc
    \/ r.checkpoint \in {"noon", "twoPM"} /\ DOMAIN Feed(r.feed).bars = {}

\* C31: get_official_checkpoint_price answers the current quote of get_price
\* whenever the daily or minute data of the date is missing or the lookup
\* raises, for every checkpoint, and answers None only when get_price does
C31_FallbackToQuote ==
    \A s \in Sessions : \A r \in Lookups(s) :
        /\ (LookupDataMissing(r) \/ r.lookup = "raises") =>
               r.price = Feed(r.feed).quote
        /\ r.price = None => Feed(r.feed).quote = None

\* a noon lookup raised over a feed that has the minute bar: the quote, which
\* differs from the bar's close, was answered
C31_RaisedLookup_Witness ==
    \E s \in Sessions : \E r \in Lookups(s) :
        /\ r.lookup = "raises" /\ r.checkpoint = "noon" /\ r.feed = "minute"
        /\ r.price = 584
        /\ GetOfficialCheckpointPrice(Feed(r.feed), "noon") = 582

\* the date whose simulation results the step of s stores
StoreTarget(s) == CalendarDates[Head(loc[s].dates)]

\* s is about to store a day that a simulation stored before
StoresAgain(s) ==
    /\ pc[s] \in {"sim_day", "adm_day"}
    /\ HasRow(StoreTarget(s))
    /\ \E r \in ai : r.date = StoreTarget(s)

\* every stored prediction is kept with its predicted_price
PredictedPricesKept ==
    \A r \in ai : \E q \in ai' :
        q.id = r.id /\ q.predicted_price = r.predicted_price

StoredKeys(rows) == {<<r.date, r.checkpoint>> : r \in rows}

C33_ErrorMatchesRow ==
    \A r \in ai :
        r.actual_price # None =>
            r.prediction_error = Abs(r.predicted_price - r.actual_price)

\* the batches of predictions a session holds from _get_ai_predictions
GeneratedBatches(s) ==
    IF out[s].op = "_get_ai_predictions" THEN {ret[s]} ELSE {}

\* C34: every stored AIPrediction row has a checkpoint among open, noon,
\* twoPM and close, and every generated batch holds each of these checkpoints
\* at most once, whatever keys the reply of the model has
C34_ClosedCheckpointSet ==
    /\ \A r \in ai : r.checkpoint \in AICheckpoints
    /\ \A s \in Sessions : \A batch \in GeneratedBatches(s) :
           \A cp \in AICheckpoints :
               Cardinality({i \in 1..Len(batch) : batch[i].checkpoint = cp}) <= 1

\* the step is taken by the forced call of s and is not its commit
ForcedCallStep(s) ==
    \/ /\ pc[s] \in {"gc_delete", "gc_deleting", "gc_flush", "gc_commit"}
       /\ loc[s].op = "get_or_create_predictions" /\ loc[s].force
       /\ pc'[s] # pc[s]
       /\ ~(pc[s] = "gc_commit" /\ out'[s].result = "ok")
    \/ /\ pc[s] = "idle" /\ pc'[s] = "idle"
       /\ out'[s] # out[s]
       /\ out'[s].op = "get_or_create_predictions"
       /\ out'[s].result \in {"Exception", "IntegrityError"}

\* C35: no step of get_or_create_predictions_for_date(force_regenerate=True)
\* but its successful commit changes a stored row; a call that fails at the
\* generation, the DELETE, the INSERT or the commit ends with nothing pending
\* and every row stored for the date as it was
C35_FailedRegenerateKeepsRows ==
    [][\A s \in Sessions : ForcedCallStep(s) =>
        /\ ai' = ai /\ daily' = daily
        /\ pc'[s] = "idle" =>
               /\ out'[s].result \in {"Exception", "IntegrityError"}
               /\ loc'[s].pendingAI = {} /\ loc'[s].deleted = {}]_vars

\* a forced regeneration deleted the four stored rows, flushed four new ones
\* and then failed: the four rows written before are stored
C35_FailedAfterDelete_Witness ==
    /\ out["s1"].op = "get_or_create_predictions"
    /\ out["s1"].result = "Exception"
    /\ pc["s1"] = "idle" /\ pc["s2"] = "idle" /\ out["s2"] = NoOut
    /\ nextId = 9
    /\ Cardinality(ai) = 4
    /\ \A r \in ai : r.date = D1 /\ r.created_at = 1 /\ r.market_context = "ctxA"

\* C36: every stored prediction with actual_price set carries the price now
\* stored in the DailyPrediction field of its date and checkpoint, also after
\* a forced refresh has overwritten that field
C36_ActualEqualsDailyField ==
    \A r \in ai :
        r.actual_price # None =>
            /\ HasRow(r.date)
            /\ r.checkpoint \in AICheckpoints
            /\ Row(r.date)[r.checkpoint] = r.actual_price

\* create_ai_prediction_for_date returns normally in session s with this step
CreateSucceeds(s) ==
    /\ pc[s] = "ca_commit"
    /\ pc'[s] = "idle"
    /\ out'[s].op = "create_ai_prediction"
    /\ out'[s].result = "ok"

MorningDone ==
    /\ pc["s1"] = "idle" /\ out["s1"].op = "run_ai_prediction"
    /\ pc["s2"] = "idle" /\ out["s2"].op = "capture_price"

\* C38: on a weekday for which no DailyPrediction row exists yet, the 08:00
\* AI-prediction job and the 08:00 preMarket capture job, run in any
\* interleaving, both take effect: afterwards the day's row holds the
\* preMarket price and a locked AI band
C38_BothJobsTakeEffect ==
    MorningDone =>
        /\ HasRow(D1)
        /\ Row(D1).preMarket # None
        /\ Row(D1).locked = True
        /\ Row(D1).source = "ai"
        /\ Row(D1).predLow # None
        /\ Row(D1).predHigh # None

\* the fields a body leaves out (model_dump reports them as None)
OmittedFields(p) ==
    {k \in DOMAIN Payload(p) :
        IF k \in {"source", "locked", "rangeHit"} THEN Payload(p)[k] = NoneStr
        ELSE Payload(p)[k] = None}

GovernedFields == {"preMarket", "open", "noon", "twoPM", "close", "locked", "source"}

\* C39: submitting a manual prediction (POST /prediction or POST
\* /prediction/{date}) for a date changes only the fields supplied in the
\* payload: the captured checkpoint prices, the lock flag and the source that
\* the payload omits are left unchanged
C39_OmittedFieldsUnchanged ==
    [][\A p \in PayloadNames :
        (HasRow(D1) /\ CreateOrUpdatePrediction("s1", p)) =>
            \A r \in daily' : r.date = D1 =>
                \A k \in OmittedFields(p) \cap GovernedFields :
                    r[k] = Row(D1)[k]]_vars

\* C40: after cleanup_duplicate_predictions runs, exactly one AIPrediction row
\* remains per (date, checkpoint), and it is the same row that
\* get_unique_predictions_for_date returned before the cleanup
C40_CleanupKeepsCanonicalRow ==
    [][CleanupDuplicatePredictions("s2") =>
        /\ ai' \subseteq ai
        /\ \A r \in ai : Cardinality({q \in ai' : SameKey(q, r)}) = 1
        /\ out["s1"].op = "get_unique_predictions" =>
               \A i \in 1..Len(ret["s1"]) : ret["s1"][i] \in ai']_vars

====
